---- MODULE Spec2Model ----
(***************************************************************************)
(* A model of the SID symbolic-reasoning core: the expression parser       *)
(* (sid_parser.py), the conflict resolution framework (sid_crf.py), the    *)
(* rewrite engine (sid_rewrite.py) and the package validator               *)
(* (sid_validator.py).                                                     *)
(*                                                                         *)
(* Conventions.  A Python str that the code scans character by character   *)
(* is a sequence of one-character strings; ids, operator tags and labels   *)
(* are TLA+ strings.  Python's None / missing dict key is the empty        *)
(* string "" for an id and a record with ok = FALSE for a structured       *)
(* result.  A dict keeps insertion order, so a dict is a sequence of keys  *)
(* plus a lookup.                                                          *)
(***************************************************************************)
EXTENDS Integers, Sequences, FiniteSets, TLC

\* ------------------------------------------------------------------------
\* Generic helpers (Python built-ins)
\* ------------------------------------------------------------------------

Range(s) == {s[i] : i \in DOMAIN s}

RECURSIVE SeqFilterIdx(_, _, _)
\* the elements s[i], i >= from, whose index is in keep, in order
SeqFilterIdx(s, keep, from) ==
    IF from > Len(s) THEN <<>>
    ELSE (IF from \in keep THEN <<s[from]>> ELSE <<>>) \o SeqFilterIdx(s, keep, from + 1)

\* [x for x in s if P(x)] given the index set {i : P(s[i])}
Keep(s, keep) == SeqFilterIdx(s, keep, 1)

Contains(s, x) == \E i \in DOMAIN s : s[i] = x

\* ------------------------------------------------------------------------
\* sid_parser.py: tokenizer
\* ------------------------------------------------------------------------

Upper == {"A","B","C","D","E","F","G","H","I","J","K","L","M",
          "N","O","P","Q","R","S","T","U","V","W","X","Y","Z"}
Lower == {"a","b","c","d","e","f","g","h","i","j","k","l","m",
          "n","o","p","q","r","s","t","u","v","w","x","y","z"}
Digit == {"0","1","2","3","4","5","6","7","8","9"}
Space == {" ", "\t", "\n"}

IdentStart == Upper \cup Lower \cup {"_"}
IdentPart  == IdentStart \cup Digit

OPERATORS == {"P", "S+", "S-", "O", "C", "T"}

\* OPERATOR_ARITY: <<min_args, max_args>>, max_args = -1 for None (no upper bound)
OPERATOR_ARITY ==
    [op \in OPERATORS |->
        CASE op = "P"  -> <<1, 1>>
          [] op = "S+" -> <<1, -1>>
          [] op = "S-" -> <<1, -1>>
          [] op = "O"  -> <<1, 1>>
          [] op = "C"  -> <<2, 2>>
          [] op = "T"  -> <<1, 1>>]

RECURSIVE RunEnd(_, _, _)
\* the first index >= i at which text leaves the character class cls (greedy *)
RunEnd(text, i, cls) ==
    IF i <= Len(text) /\ text[i] \in cls THEN RunEnd(text, i + 1, cls) ELSE i

\* TOKEN_RE.match(text, idx): the alternatives are tried in the order of the
\* pattern (ws, op, ident, lparen, rparen, comma); the first that matches at
\* idx wins.  Result: [kind, value, name, end]; kind = "" when nothing
\* matches.  value is the operator tag or the punctuation mark, name the text
\* of an identifier (a sequence of characters).
TokenMatch(text, i) ==
    LET c  == text[i]
        c2 == IF i + 1 <= Len(text) THEN text[i + 1] ELSE ""
        tok(kind, value, name, end) ==
            [kind |-> kind, value |-> value, name |-> name, end |-> end]
    IN  IF c \in Space THEN tok("ws", "", <<>>, RunEnd(text, i, Space))
        ELSE IF c = "S" /\ c2 \in {"+", "-"} THEN tok("op", c \o c2, <<>>, i + 2)
        ELSE IF c \in {"P", "O", "C", "T"} THEN tok("op", c, <<>>, i + 1)
        ELSE IF c \in IdentStart
            THEN LET e == RunEnd(text, i + 1, IdentPart)
                 IN  tok("ident", "", SubSeq(text, i, e - 1), e)
        ELSE IF c = "$" /\ c2 \in IdentStart
            THEN LET e == RunEnd(text, i + 2, IdentPart)
                 IN  tok("ident", "", SubSeq(text, i, e - 1), e)
        ELSE IF c = "(" THEN tok("lparen", c, <<>>, i + 1)
        ELSE IF c = ")" THEN tok("rparen", c, <<>>, i + 1)
        ELSE IF c = "," THEN tok("comma", c, <<>>, i + 1)
        ELSE tok("", c, <<>>, i)

RECURSIVE TokenizeFrom(_, _, _)
\* the while loop of tokenize; pos is the 0-based offset idx of the source
TokenizeFrom(text, i, acc) ==
    IF i > Len(text) THEN [ok |-> TRUE, tokens |-> acc, err |-> ""]
    ELSE LET Matched(m) ==
                 IF m.kind = ""
                     THEN [ok |-> FALSE, tokens |-> <<>>, err |-> "unexpected_character"]
                 ELSE TokenizeFrom(text, m.end,
                          IF m.kind = "ws" THEN acc
                          ELSE Append(acc, [kind |-> m.kind, value |-> m.value,
                                            name |-> m.name, pos |-> i - 1]))
         IN  Matched(TokenMatch(text, i))

tokenize(text) == TokenizeFrom(text, 1, <<>>)

\* ------------------------------------------------------------------------
\* sid_ast.py and sid_parser.py: the recursive-descent parser
\* ------------------------------------------------------------------------

\* Atom(name) and OpExpr(op, args); a name is a sequence of characters
Atom(name)       == [kind |-> "Atom", name |-> name, op |-> "", args |-> <<>>]
OpExpr(op, args) == [kind |-> "OpExpr", name |-> <<>>, op |-> op, args |-> args]

NoExpr == Atom(<<>>)

ParseFail(err, bound) ==
    [ok |-> FALSE, expr |-> NoExpr, pos |-> 0, err |-> err, bound |-> bound]
ParseOk(expr, pos) ==
    [ok |-> TRUE, expr |-> expr, pos |-> pos, err |-> "", bound |-> 0]

\* Parser._validate_arity without the check of max_args
validate_arity_unbounded(op, n) ==
    IF op \notin DOMAIN OPERATOR_ARITY THEN [err |-> "", bound |-> 0]
    ELSE IF n < OPERATOR_ARITY[op][1]
        THEN [err |-> "arity_at_least", bound |-> OPERATOR_ARITY[op][1]]
    ELSE [err |-> "", bound |-> 0]

\* Parser._validate_arity: "" when the arity is fine, else which bound is cited
validate_arity(op, n) ==
    IF op \notin DOMAIN OPERATOR_ARITY THEN [err |-> "", bound |-> 0]
    ELSE LET min_args == OPERATOR_ARITY[op][1]
             max_args == OPERATOR_ARITY[op][2]
         IN  IF n < min_args THEN [err |-> "arity_at_least", bound |-> min_args]
             ELSE IF max_args # -1 /\ n > max_args
                 THEN [err |-> "arity_at_most", bound |-> max_args]
             ELSE [err |-> "", bound |-> 0]

RECURSIVE parse_expr(_, _), parse_expr_list(_, _, _)

\* Parser.parse_expr at token index p (1-based; Parser.pos = p - 1)
parse_expr(tokens, p) ==
    IF p > Len(tokens) THEN ParseFail("empty_expression", 0)
    ELSE LET token == tokens[p]
             \* self._validate_arity(op, len(args), pos), then OpExpr(op, args)
             Checked(a, args, pos) ==
                 IF a.err # "" THEN ParseFail(a.err, a.bound)
                 ELSE ParseOk(OpExpr(token.value, args), pos)
             \* after args = self.parse_expr_list()
             Listed(lst) ==
                 IF ~lst.ok THEN lst
                 ELSE IF lst.pos > Len(tokens) THEN ParseFail("unexpected_end", 0)
                 ELSE IF tokens[lst.pos].kind # "rparen" THEN ParseFail("expected_rparen", 0)
                 ELSE Checked(validate_arity(token.value, Len(lst.expr.args)),
                              lst.expr.args, lst.pos + 1)
         IN
         IF token.kind = "op" THEN
             IF token.value \notin OPERATORS THEN ParseFail("unknown_operator", 0)
             ELSE IF p + 1 <= Len(tokens) /\ tokens[p + 1].kind = "lparen"
                 THEN Listed(parse_expr_list(tokens, p + 2, <<>>))
             ELSE Checked(validate_arity(token.value, 0), <<>>, p + 1)
         ELSE IF token.kind = "ident" THEN ParseOk(Atom(token.name), p + 1)
         ELSE ParseFail("unexpected_token", 0)

\* Parser.parse_expr_list; the list is returned as the args of a carrier OpExpr
parse_expr_list(tokens, p, acc) ==
    LET Parsed(first) ==
            IF ~first.ok THEN first
            ELSE IF first.pos <= Len(tokens) /\ tokens[first.pos].kind = "comma"
                THEN parse_expr_list(tokens, first.pos + 1, Append(acc, first.expr))
            ELSE ParseOk(OpExpr("", Append(acc, first.expr)), first.pos)
    IN  Parsed(parse_expr(tokens, p))

\* parse_expression without the check for a trailing token
parse_expression_prefix(text) ==
    LET Tokenized(t) ==
            IF ~t.ok THEN ParseFail(t.err, 0)
            ELSE parse_expr(t.tokens, 1)
    IN  Tokenized(tokenize(text))

\* parse_expression: ok = FALSE stands for a raised ParseError (a ValueError)
parse_expression(text) ==
    LET Parsed(tokens, r) ==
            IF ~r.ok THEN r
            ELSE IF r.pos <= Len(tokens) THEN ParseFail("trailing_token", 0)
            ELSE r
        Tokenized(t) ==
            IF ~t.ok THEN ParseFail(t.err, 0)
            ELSE Parsed(t.tokens, parse_expr(t.tokens, 1))
    IN  Tokenized(tokenize(text))

\* ------------------------------------------------------------------------
\* The data model: diagrams, states, CSIs, constraints (spec section 3; the
\* dict shapes the code reads with .get)
\* ------------------------------------------------------------------------

\* A node dict.  inputs/dof_refs/atom_args default to [] as node.get(k, []);
\* irreversible is node.get("irreversible"); target is
\* meta.get("target_compartment") with "" for a missing meta or key.
Node(id, op, inputs, dof_refs) ==
    [id |-> id, op |-> op, inputs |-> inputs, dof_refs |-> dof_refs,
     irreversible |-> FALSE, target |-> "", atom_args |-> <<>>]

Edge(id, from, to, label) == [id |-> id, from |-> from, to |-> to, label |-> label]

\* nodes = {n.get("id"): n for n in diagram.get("nodes", []) if n.get("id")}
\* keys in insertion order (a repeated key keeps its first position) ...
RECURSIVE DictKeys(_, _, _)
DictKeys(items, i, acc) ==
    IF i > Len(items) THEN acc
    ELSE DictKeys(items, i + 1,
             IF items[i].id = "" \/ Contains(acc, items[i].id) THEN acc
             ELSE Append(acc, items[i].id))

NodeKeys(diagram) == DictKeys(diagram.nodes, 1, <<>>)
NodeIdSet(diagram) == {diagram.nodes[i].id : i \in DOMAIN diagram.nodes} \ {""}
EdgeIdSet(diagram) == {diagram.edges[i].id : i \in DOMAIN diagram.edges} \ {""}

\* ... and the value of a key is the last item that carries it
NodeAt(diagram, id) ==
    LET idx == {i \in DOMAIN diagram.nodes : diagram.nodes[i].id = id}
    IN  diagram.nodes[CHOOSE i \in idx : \A j \in idx : j <= i]

HasNode(diagram, id) == id # "" /\ id \in NodeIdSet(diagram)

\* ------------------------------------------------------------------------
\* sid_crf.py: the predicate registry
\* ------------------------------------------------------------------------

PredOk == [ok |-> TRUE, ref |-> ""]
PredFail(ref) == [ok |-> FALSE, ref |-> ref]

\* the (fd, td) pairs of one edge that are outside allowed_pairs
EdgePairViolation(diagram, edge, allowed) ==
    /\ HasNode(diagram, edge.from)
    /\ HasNode(diagram, edge.to)
    /\ \E fd \in Range(NodeAt(diagram, edge.from).dof_refs) :
           \E td \in Range(NodeAt(diagram, edge.to).dof_refs) : <<fd, td>> \notin allowed

no_cross_csi_interaction(state, diagram, csi) ==
    LET First(bad) ==
            IF bad = {} THEN PredOk
            ELSE PredFail(diagram.edges[CHOOSE i \in bad : \A j \in bad : i <= j].id)
        Within(allowed) ==
            IF allowed = {} THEN PredOk
            ELSE First({i \in DOMAIN diagram.edges :
                           EdgePairViolation(diagram, diagram.edges[i], allowed)})
    IN  Within({p \in Range(csi.allowed_pairs) : Len(p) = 2})

collapse_irreversible(state, diagram, csi) ==
    LET bad == {i \in DOMAIN diagram.nodes :
                   diagram.nodes[i].op = "O" /\ ~diagram.nodes[i].irreversible}
    IN  IF bad = {} THEN PredOk
        ELSE PredFail(diagram.nodes[CHOOSE i \in bad : \A j \in bad : i <= j].id)

\* edges_by_from[from_id]: the "to" ids of the edges leaving from_id, in edge order
EdgesByFrom(diagram, from_id) ==
    LET keep == {i \in DOMAIN diagram.edges : diagram.edges[i].from = from_id}
        es   == Keep(diagram.edges, keep)
    IN  [i \in DOMAIN es |-> es[i].to]

RECURSIVE DfsVisit(_, _, _, _), DfsNeighbors(_, _, _, _, _)

\* has_cycle(node_id) of no_cycles / has_cycle_dfs of _has_cycle: visited is
\* the shared set (returned), rec_stack the nodes of the current DFS path
DfsVisit(diagram, node_id, visited, rec_stack) ==
    DfsNeighbors(diagram, EdgesByFrom(diagram, node_id), 1,
                 visited \cup {node_id}, rec_stack \cup {node_id})

DfsNeighbors(diagram, nbrs, k, visited, rec_stack) ==
    IF k > Len(nbrs) THEN [found |-> FALSE, visited |-> visited]
    ELSE IF nbrs[k] \notin visited THEN
        LET Visited(r) ==
                IF r.found THEN r
                ELSE DfsNeighbors(diagram, nbrs, k + 1, r.visited, rec_stack)
        IN  Visited(DfsVisit(diagram, nbrs[k], visited, rec_stack))
    ELSE IF nbrs[k] \in rec_stack THEN [found |-> TRUE, visited |-> visited]
    ELSE DfsNeighbors(diagram, nbrs, k + 1, visited, rec_stack)

RECURSIVE DfsRoots(_, _, _, _)
\* for node_id in nodes: if node_id not in visited: if has_cycle(node_id): ...
\* the id returned is the root of the DFS that met the cycle ("" for none)
DfsRoots(diagram, keys, k, visited) ==
    IF k > Len(keys) THEN ""
    ELSE IF keys[k] \in visited THEN DfsRoots(diagram, keys, k + 1, visited)
    ELSE LET Visited(r) ==
                 IF r.found THEN keys[k] ELSE DfsRoots(diagram, keys, k + 1, r.visited)
         IN  Visited(DfsVisit(diagram, keys[k], visited, {}))

no_cycles(state, diagram, csi) ==
    LET Verdict(root) == IF root = "" THEN PredOk ELSE PredFail(root)
    IN  Verdict(DfsRoots(diagram, NodeKeys(diagram), 1, {}))

valid_compartment_transitions(state, diagram, csi) ==
    LET bad == {i \in DOMAIN diagram.nodes :
                   diagram.nodes[i].op = "T" /\ diagram.nodes[i].target = ""}
    IN  IF bad = {} THEN PredOk
        ELSE PredFail(diagram.nodes[CHOOSE i \in bad : \A j \in bad : i <= j].id)

\* the names under which register_predicate put a function in PREDICATES
PREDICATES == {"no_cross_csi_interaction", "collapse_irreversible",
               "no_cycles", "valid_compartment_transitions"}

\* predicate(state, diagram, csi) for predicate = PREDICATES.get(name)
ApplyPredicate(name, state, diagram, csi) ==
    CASE name = "no_cross_csi_interaction" -> no_cross_csi_interaction(state, diagram, csi)
      [] name = "collapse_irreversible"    -> collapse_irreversible(state, diagram, csi)
      [] name = "no_cycles"                -> no_cycles(state, diagram, csi)
      [] name = "valid_compartment_transitions" ->
             valid_compartment_transitions(state, diagram, csi)

\* ------------------------------------------------------------------------
\* sid_crf.py: constraint evaluation, I/N/U labels, authorization
\* ------------------------------------------------------------------------

\* A message: level is the prefix the caller prints ("ERROR", "WARNING", ""
\* for a plain line), code what it says, ref the id it names
Msg(level, code, ref) == [level |-> level, code |-> code, ref |-> ref]

RECURSIVE EvalLoop(_, _, _, _, _, _, _)
EvalLoop(constraints, k, state, diagram, csi, errors, warnings) ==
    IF k > Len(constraints) THEN [errors |-> errors, warnings |-> warnings]
    ELSE LET c == constraints[k] IN
         IF c.predicate = "" THEN
             EvalLoop(constraints, k + 1, state, diagram, csi, errors, warnings)
         ELSE IF c.predicate \notin PREDICATES THEN
             EvalLoop(constraints, k + 1, state, diagram, csi, errors,
                      Append(warnings, Msg("", "unknown_predicate", c.predicate)))
         ELSE IF ApplyPredicate(c.predicate, state, diagram, csi).ok THEN
             EvalLoop(constraints, k + 1, state, diagram, csi, errors, warnings)
         ELSE LET ctype == IF c.type = "" THEN "hard" ELSE c.type IN
              IF ctype = "hard" THEN
                  EvalLoop(constraints, k + 1, state, diagram, csi,
                           Append(errors, Msg("", "constraint_failed", c.id)), warnings)
              ELSE
                  EvalLoop(constraints, k + 1, state, diagram, csi, errors,
                           Append(warnings, Msg("", "constraint_failed", c.id)))

\* evaluate_constraints reporting every failed constraint as an error
evaluate_constraints_all_hard(constraints, state, diagram, csi) ==
    LET Strict(r) == [errors |-> r.errors \o r.warnings, warnings |-> <<>>]
    IN  Strict(EvalLoop(constraints, 1, state, diagram, csi, <<>>, <<>>))

evaluate_constraints(constraints, state, diagram, csi) ==
    EvalLoop(constraints, 1, state, diagram, csi, <<>>, <<>>)

\* inu_labels[id] = label for every node and edge with a (truthy) id
LabelAll(diagram, label) ==
    [id \in NodeIdSet(diagram) \cup EdgeIdSet(diagram) |-> label]

RECURSIVE GlobalFail(_, _, _, _, _, _)
\* Phase 1 of assign_inu_labels: "hard" as soon as a failing constraint has
\* type == "hard" (break), else "soft" if any other constraint failed, else ""
GlobalFail(constraints, k, state, diagram, csi, soft) ==
    IF k > Len(constraints) THEN (IF soft THEN "soft" ELSE "")
    ELSE LET c == constraints[k] IN
         IF c.predicate = "" \/ c.predicate \notin PREDICATES THEN
             GlobalFail(constraints, k + 1, state, diagram, csi, soft)
         ELSE IF ApplyPredicate(c.predicate, state, diagram, csi).ok THEN
             GlobalFail(constraints, k + 1, state, diagram, csi, soft)
         ELSE IF c.type = "hard" THEN "hard"
         ELSE GlobalFail(constraints, k + 1, state, diagram, csi, TRUE)

\* assign_inu_labels made to depend on what an earlier run stored: a state
\* that already carries labels counts as a soft failure
assign_inu_labels_after_store(diagram, constraints, state, csi) ==
    LET GlobalLabel(fail) ==
            IF fail = "hard" THEN "N" ELSE IF fail = "soft" THEN "U" ELSE "I"
    IN  IF constraints = <<>> THEN LabelAll(diagram, "I")
        ELSE LabelAll(diagram,
                      GlobalLabel(GlobalFail(constraints, 1, state, diagram, csi,
                                             state.has_labels)))

assign_inu_labels(diagram, constraints, state, csi) ==
    LET GlobalLabel(fail) ==
            IF fail = "hard" THEN "N" ELSE IF fail = "soft" THEN "U" ELSE "I"
    IN  IF constraints = <<>> THEN LabelAll(diagram, "I")
        ELSE LabelAll(diagram,
                      GlobalLabel(GlobalFail(constraints, 1, state, diagram, csi, FALSE)))

\* state.get("inu_labels", {})
NoLabels == [id \in {} |-> "I"]

LabelsOf(state) == IF state.has_labels THEN state.inu_labels ELSE NoLabels

check_admissible(state) ==
    LET inu_labels == LabelsOf(state) IN
    IF \E key \in DOMAIN inu_labels : inu_labels[key] = "N"
        THEN [ok |-> FALSE, detail |-> "forbidden"]
    ELSE IF \E key \in DOMAIN inu_labels : inu_labels[key] = "U"
        THEN [ok |-> TRUE, detail |-> "unresolved"]
    ELSE [ok |-> TRUE, detail |-> "all_admissible"]

\* state["inu_labels"] = assign_inu_labels(...) when the key is absent
WithLabels(state, diagram, constraints, csi) ==
    IF state.has_labels THEN state
    ELSE [state EXCEPT !.has_labels = TRUE,
                       !.inu_labels = assign_inu_labels(diagram, constraints, state, csi)]

RECURSIVE PreLoop(_, _, _, _)
\* the loop over rewrite_rule["preconditions"] of authorize_rewrite
PreLoop(rule, k, state, warnings) ==
    IF k > Len(rule.preconditions)
        THEN [authorized |-> TRUE, errors |-> <<>>, warnings |-> warnings]
    ELSE LET pre == rule.preconditions[k] IN
         IF pre = "admissible" THEN
             IF ~check_admissible(state).ok
                 THEN [authorized |-> FALSE,
                       errors |-> <<Msg("", "precondition_failed", rule.id)>>,
                       warnings |-> warnings]
             ELSE PreLoop(rule, k + 1, state, warnings)
         ELSE IF pre = "no_hard_conflict" THEN PreLoop(rule, k + 1, state, warnings)
         ELSE PreLoop(rule, k + 1, state,
                      Append(warnings, Msg("", "unknown_precondition", rule.id)))

\* authorize_rewrite: the verdict, plus the state as the call leaves it (the
\* state dict is written in place when it holds no labels yet)
authorize_rewrite(constraints, state, diagram, csi, rewrite_rule) ==
    LET Verdict(r, st) ==
            [authorized |-> r.authorized, errors |-> r.errors, warnings |-> r.warnings,
             state |-> st]
        Evaluated(ev, st) ==
            IF ev.errors # <<>>
                THEN Verdict([authorized |-> FALSE, errors |-> ev.errors,
                              warnings |-> ev.warnings], st)
            ELSE Verdict(PreLoop(rewrite_rule, 1, st, ev.warnings), st)
        Labelled(st) == Evaluated(evaluate_constraints(constraints, st, diagram, csi), st)
    IN  Labelled(WithLabels(state, diagram, constraints, csi))

\* ------------------------------------------------------------------------
\* str methods used by the edge-pattern parser
\* ------------------------------------------------------------------------

\* text.strip()
strip(text) ==
    LET solid == {i \in DOMAIN text : text[i] \notin Space} IN
    IF solid = {} THEN <<>>
    ELSE SubSeq(text, CHOOSE i \in solid : \A j \in solid : i <= j,
                      CHOOSE i \in solid : \A j \in solid : j <= i)

\* text.find(sub) + 1 (0 when sub does not occur)
FindSub(text, sub) ==
    LET at == {i \in 1..(Len(text) - Len(sub) + 1) : SubSeq(text, i, i + Len(sub) - 1) = sub}
    IN  IF at = {} THEN 0 ELSE CHOOSE i \in at : \A j \in at : i <= j

\* sub in text
HasSub(text, sub) == FindSub(text, sub) # 0

\* text.split(sep, 1)
Split1(text, sep) ==
    LET i == FindSub(text, sep) IN
    IF i = 0 THEN <<text>>
    ELSE <<SubSeq(text, 1, i - 1), SubSeq(text, i + Len(sep), Len(text))>>

RECURSIVE SplitAll(_, _)
\* text.split(sep)
SplitAll(text, sep) ==
    LET i == FindSub(text, sep) IN
    IF i = 0 THEN <<text>>
    ELSE <<SubSeq(text, 1, i - 1)>> \o SplitAll(SubSeq(text, i + Len(sep), Len(text)), sep)

RECURSIVE Join(_)
\* the characters of text as one string (an operator tag, an edge label)
Join(text) == IF text = <<>> THEN "" ELSE Head(text) \o Join(Tail(text))

\* ------------------------------------------------------------------------
\* sid_rewrite.py: edge patterns
\* ------------------------------------------------------------------------

\* SidePattern(op, var); has_op = FALSE is op = None
SidePattern(has_op, op, var) == [ok |-> TRUE, has_op |-> has_op, op |-> op, var |-> var]
SideError == [ok |-> FALSE, has_op |-> FALSE, op |-> "", var |-> <<>>]

\* parse_side; ok = FALSE is the ValueError
parse_side(text0) ==
    LET Wrapped(op, var) ==
            IF var = <<>> THEN SideError ELSE SidePattern(TRUE, Join(op), var)
        Parts(parts) ==
            Wrapped(strip(parts[1]), strip(SubSeq(parts[2], 1, Len(parts[2]) - 1)))
        Stripped(text) ==
            IF HasSub(text, <<"(">>) /\ text # <<>> /\ text[Len(text)] = ")"
                THEN Parts(Split1(text, <<"(">>))
            ELSE SidePattern(FALSE, "", text)
    IN  Stripped(strip(text0))

EdgePattern(left, edge_label, right) ==
    [left |-> left, edge_label |-> edge_label, right |-> right]

RulePattern(edges) == [ok |-> TRUE, edges |-> edges]
RulePatternError == [ok |-> FALSE, edges |-> <<>>]

Dash2 == <<"-", "-">>
Arrow == <<"-", "-", ">">>

RECURSIVE ParseSegments(_, _, _)
\* the loop over segments of parse_rule_pattern
ParseSegments(segments, k, edges) ==
    IF k > Len(segments) THEN RulePattern(edges)
    ELSE LET segment == segments[k]
             Sides(left, edge_label, right) ==
                 IF ~left.ok \/ ~right.ok THEN RulePatternError
                 ELSE ParseSegments(segments, k + 1,
                          Append(edges, EdgePattern(left, Join(strip(edge_label)), right)))
             \* edge_label, right_text = rest.split("-->", 1)
             Rest(left_text, er) ==
                 IF Len(er) # 2 THEN RulePatternError   \* unpacking raises ValueError
                 ELSE Sides(parse_side(left_text), er[1], parse_side(er[2]))
             \* left_text, rest = segment.split("--", 1)
             Halves(lr) == Rest(lr[1], Split1(lr[2], Arrow))
         IN  IF ~HasSub(segment, Dash2) \/ ~HasSub(segment, Arrow) THEN RulePatternError
             ELSE Halves(Split1(segment, Dash2))

\* parse_rule_pattern; ok = FALSE is the ValueError
parse_rule_pattern(text) ==
    IF ~HasSub(text, Dash2) \/ ~HasSub(text, Arrow) THEN RulePatternError
    ELSE LET NonEmpty(st) == Keep(st, {i \in DOMAIN st : st[i] # <<>>})
             Stripped(raw) == NonEmpty([i \in DOMAIN raw |-> strip(raw[i])])
         IN  ParseSegments(Stripped(SplitAll(text, <<",">>)), 1, <<>>)

\* Optional[Dict[str, str]]: ok = FALSE is None, b the dict (variable -> node id)
NoBindings == [v \in {} |-> ""]
Some(b) == [ok |-> TRUE, b |-> b]
None == [ok |-> FALSE, b |-> NoBindings]

\* bindings.get(var): "" for a missing key
Get(b, var) == IF var \in DOMAIN b THEN b[var] ELSE ""

match_side(pattern, node) ==
    IF pattern.has_op /\ pattern.op # "" /\ node.op # pattern.op THEN None
    ELSE IF node.id = "" THEN None
    ELSE Some([v \in {pattern.var} |-> node.id])

merge_bindings(a, b) ==
    IF ~a.ok \/ ~b.ok THEN None
    ELSE IF \E key \in DOMAIN b.b : key \in DOMAIN a.b /\ a.b[key] # b.b[key] THEN None
    ELSE Some([key \in DOMAIN a.b \cup DOMAIN b.b |->
                  IF key \in DOMAIN b.b THEN b.b[key] ELSE a.b[key]])

match_edge_pattern(pattern, edge, diagram, bindings) ==
    IF edge.label # pattern.edge_label THEN None
    ELSE IF ~HasNode(diagram, edge.from) \/ ~HasNode(diagram, edge.to) THEN None
    ELSE merge_bindings(Some(bindings),
             merge_bindings(match_side(pattern.left, NodeAt(diagram, edge.from)),
                            match_side(pattern.right, NodeAt(diagram, edge.to))))

\* A match: the bindings and the consumed edge ids.  The code keeps the edge
\* ids inside the bindings dict under the key "_edge_ids", joined by ","
\* and split again by its readers.
Match(b, edge_ids) == [ok |-> TRUE, b |-> b, edge_ids |-> edge_ids]
NoMatch == [ok |-> FALSE, b |-> NoBindings, edge_ids |-> {}]

RECURSIVE backtrack_reusing(_, _, _, _, _, _, _)
\* backtrack without the test for the edges already used
backtrack_reusing(diagram, pattern, forbidden, idx, bindings, used_edges, k) ==
    IF idx > Len(pattern.edges) THEN Match(bindings, used_edges)
    ELSE IF k > Len(diagram.edges) THEN NoMatch
    ELSE LET edge == diagram.edges[k]
             NextEdge == backtrack_reusing(diagram, pattern, forbidden, idx, bindings,
                                           used_edges, k + 1)
             Deeper(result) == IF result.ok THEN result ELSE NextEdge
             Bound(new_bindings) ==
                 IF ~new_bindings.ok THEN NextEdge
                 ELSE Deeper(backtrack_reusing(diagram, pattern, forbidden, idx + 1,
                                               new_bindings.b, used_edges \cup {edge.id}, 1))
         IN  IF edge.id = "" \/ edge.id \in forbidden THEN NextEdge
             ELSE Bound(match_edge_pattern(pattern.edges[idx], edge, diagram, bindings))

RECURSIVE backtrack(_, _, _, _, _, _, _)
\* backtrack(idx, bindings, used_edges) with its loop over the edges at k.
\* The start loop of find_first_match is backtrack for idx = 1 with nothing
\* bound and nothing used.
backtrack(diagram, pattern, forbidden, idx, bindings, used_edges, k) ==
    IF idx > Len(pattern.edges) THEN Match(bindings, used_edges)
    ELSE IF k > Len(diagram.edges) THEN NoMatch
    ELSE LET edge == diagram.edges[k]
             \* continue with the next edge of the loop
             NextEdge == backtrack(diagram, pattern, forbidden, idx, bindings, used_edges, k + 1)
             Deeper(result) == IF result.ok THEN result ELSE NextEdge
             Bound(new_bindings) ==
                 IF ~new_bindings.ok THEN NextEdge
                 ELSE Deeper(backtrack(diagram, pattern, forbidden, idx + 1,
                                       new_bindings.b, used_edges \cup {edge.id}, 1))
         IN  IF edge.id = "" \/ edge.id \in used_edges \/ edge.id \in forbidden THEN NextEdge
             ELSE Bound(match_edge_pattern(pattern.edges[idx], edge, diagram, bindings))

find_first_match(diagram, pattern, forbidden_edges) ==
    backtrack(diagram, pattern, forbidden_edges, 1, NoBindings, {}, 1)

\* the default of find_all_matches' max_matches
MAX_MATCHES == 1000

RECURSIVE FindAllLoop(_, _, _, _, _)
FindAllLoop(diagram, pattern, max_matches, matches, forbidden) ==
    IF Len(matches) >= max_matches THEN matches
    ELSE LET Found(match) ==
                 IF ~match.ok THEN matches
                 ELSE FindAllLoop(diagram, pattern, max_matches, Append(matches, match),
                                  forbidden \cup match.edge_ids)
         IN  Found(find_first_match(diagram, pattern, forbidden))

find_all_matches(diagram, pattern, max_matches) ==
    FindAllLoop(diagram, pattern, max_matches, <<>>, {})

\* _next_id without the search: always the first candidate
NextIdFirst(existing, prefix) == prefix \o ToString(1)

\* _next_id: the first prefix<idx>, idx = 1, 2, ..., not among the existing ids
NextId(existing, prefix) ==
    LET free == {idx \in 1..(Cardinality(existing) + 1) : (prefix \o ToString(idx)) \notin existing}
    IN  prefix \o ToString(CHOOSE idx \in free : \A j \in free : idx <= j)

IdsOf(items) == {items[i].id : i \in DOMAIN items} \ {""}

next_node_id(nodes, prefix) == NextId(IdsOf(nodes), prefix)
next_edge_id(edges, prefix) == NextId(IdsOf(edges), prefix)

\* ensure_node(side) of apply_replacement, on the closure's variables
\* acc = [nodes, edges, bindings, cache]; cache is wrapper_cache, keyed by
\* <<op, node_id>>.  ok = FALSE is the ValueError for an unbound variable
\* without an operator.
ensure_node(side, acc, rule_id) ==
    LET node_id == Get(acc.bindings, side.var)
        \* a wrapper node over the bound node, remembered in wrapper_cache
        Wrapper(new_id) ==
            [ok |-> TRUE, id |-> new_id,
             acc |-> [acc EXCEPT
                 !.nodes = Append(@, Node(new_id, side.op, <<node_id>>, <<>>)),
                 !.cache = [key \in DOMAIN @ \cup {<<side.op, node_id>>} |->
                               IF key = <<side.op, node_id>> THEN new_id ELSE @[key]]]]
        \* a fresh node for an unbound variable, bound to it from now on
        Fresh(new_id) ==
            [ok |-> TRUE, id |-> new_id,
             acc |-> [acc EXCEPT
                 !.nodes = Append(@, Node(new_id, side.op, <<>>, <<>>)),
                 !.bindings = [v \in DOMAIN @ \cup {side.var} |->
                                  IF v = side.var THEN new_id ELSE @[v]]]]
    IN  IF node_id # "" THEN
            IF ~side.has_op THEN [ok |-> TRUE, id |-> node_id, acc |-> acc]
            ELSE IF <<side.op, node_id>> \in DOMAIN acc.cache
                THEN [ok |-> TRUE, id |-> acc.cache[<<side.op, node_id>>], acc |-> acc]
            ELSE Wrapper(next_node_id(acc.nodes, rule_id \o "_n"))
        ELSE IF ~side.has_op THEN [ok |-> FALSE, id |-> "", acc |-> acc]
        ELSE Fresh(next_node_id(acc.nodes, rule_id \o "_n"))

RECURSIVE ReplacementLoop(_, _, _, _)
\* for edge_pattern in replacement.edges of apply_replacement
ReplacementLoop(replacement, k, acc, rule_id) ==
    IF k > Len(replacement.edges) THEN [ok |-> TRUE, acc |-> acc]
    ELSE LET edge_pattern == replacement.edges[k]
             Right(from_id, r) ==
                 IF ~r.ok THEN [ok |-> FALSE, acc |-> r.acc]
                 ELSE ReplacementLoop(replacement, k + 1,
                          [r.acc EXCEPT !.edges = Append(@,
                              Edge(next_edge_id(r.acc.edges, rule_id \o "_e"),
                                   from_id, r.id, edge_pattern.edge_label))],
                          rule_id)
             Left(l) ==
                 IF ~l.ok THEN [ok |-> FALSE, acc |-> l.acc]
                 ELSE Right(l.id, ensure_node(edge_pattern.right, l.acc, rule_id))
         IN  Left(ensure_node(edge_pattern.left, acc, rule_id))

\* list(items) left out: the same list object
list_alias(items) == [shared |-> TRUE, items |-> items]

\* list(items): a new list object holding the same items.  shared says
\* whether a write to the list is a write to the list it was made from.
list_copy(items) == [shared |-> FALSE, items |-> items]

\* dict(edge) left out: the same dict object
dict_alias(edge) == [shared |-> TRUE, item |-> edge]

\* dict(edge): a new dict object; shared as for list_copy
dict_copy(edge) == [shared |-> FALSE, item |-> edge]

\* apply_replacement(diagram, replacement, bindings, rule_id) for a match;
\* ok = FALSE is the ValueError.  source is the dict passed as diagram, as
\* the call leaves it: ensure_node appends to nodes, the list(...) of line
\* 212; edges is rebuilt by the comprehension of line 246.
apply_replacement(diagram, replacement, match, rule_id) ==
    LET edges == Keep(diagram.edges,
                      {i \in DOMAIN diagram.edges : diagram.edges[i].id \notin match.edge_ids})
        Replaced(nodes, r) ==
            [ok |-> r.ok,
             diagram |-> [diagram EXCEPT !.nodes = r.acc.nodes, !.edges = r.acc.edges],
             source |-> IF nodes.shared
                            THEN [diagram EXCEPT !.nodes = r.acc.nodes] ELSE diagram]
        Copied(nodes) ==
            Replaced(nodes, ReplacementLoop(replacement, 1,
                         [nodes |-> nodes.items, edges |-> edges,
                          bindings |-> match.b, cache |-> [key \in {} |-> ""]], rule_id))
    IN  Copied(list_copy(diagram.nodes))

\* ------------------------------------------------------------------------
\* sid_rewrite.py: expression patterns
\* ------------------------------------------------------------------------

\* is_variable(atom): a $ prefix, or a single lower-case letter
is_variable(name) ==
    IF name # <<>> /\ name[1] = "$" THEN TRUE
    ELSE Len(name) = 1 /\ name[1] \in Lower

RECURSIVE lstrip_dollar(_)
\* name.lstrip("$")
lstrip_dollar(name) ==
    IF name # <<>> /\ name[1] = "$" THEN lstrip_dollar(Tail(name)) ELSE name

\* _has_cycle(diagram): the DFS of no_cycles, written out again in sid_rewrite.py
has_cycle(diagram) == DfsRoots(diagram, NodeKeys(diagram), 1, {}) # ""

\* The result of match_expr: ok = FALSE is None.  matched and bound_nodes
\* are the two sets the call adds to (also on the way to a failure).
ExprMatch(ok, bindings, matched, bound_nodes) ==
    [ok |-> ok, bindings |-> bindings, matched |-> matched, bound_nodes |-> bound_nodes]

\* binding a variable atom to node_id (both places of match_expr that do it)
BindVariable(name, node_id, bindings, matched, bound_nodes) ==
    LET Bind(var_name, existing) ==
            IF existing # "" /\ existing # node_id
                THEN ExprMatch(FALSE, bindings, matched, bound_nodes)
            ELSE ExprMatch(TRUE,
                     [v \in DOMAIN bindings \cup {var_name} |->
                         IF v = var_name THEN node_id ELSE bindings[v]],
                     matched, bound_nodes \cup {node_id})
        Named(var_name) == Bind(var_name, Get(bindings, var_name))
    IN  Named(lstrip_dollar(name))

RECURSIVE match_expr(_, _, _, _, _, _), MatchArgs(_, _, _, _, _, _, _)

match_expr(expr, node_id, diagram, bindings, matched, bound_nodes) ==
    IF ~HasNode(diagram, node_id) THEN ExprMatch(FALSE, bindings, matched, bound_nodes)
    ELSE LET node == NodeAt(diagram, node_id) IN
         IF expr.kind = "Atom" THEN
             IF is_variable(expr.name)
                 THEN BindVariable(expr.name, node_id, bindings, matched, bound_nodes)
             ELSE IF node.op = "P" /\ Contains(node.dof_refs, expr.name)
                 THEN ExprMatch(TRUE, bindings, matched, bound_nodes)
             ELSE IF Contains(node.atom_args, expr.name)
                 THEN ExprMatch(TRUE, bindings, matched, bound_nodes)
             ELSE ExprMatch(FALSE, bindings, matched, bound_nodes)
         ELSE IF node.op # expr.op THEN ExprMatch(FALSE, bindings, matched, bound_nodes)
         ELSE LET matched1 == matched \cup {node_id} IN
              IF node.inputs # <<>> THEN
                  IF Len(node.inputs) < Len(expr.args)
                      THEN ExprMatch(FALSE, bindings, matched1, bound_nodes)
                  ELSE MatchArgs(expr.args, node.inputs, 1, diagram, bindings,
                                 matched1, bound_nodes)
              ELSE IF expr.op = "P" /\ expr.args # <<>> THEN
                  LET arg == expr.args[1] IN
                  IF arg.kind = "Atom" THEN
                      IF is_variable(arg.name)
                          THEN BindVariable(arg.name, node_id, bindings, matched1, bound_nodes)
                      ELSE IF ~Contains(node.dof_refs, arg.name)
                          THEN ExprMatch(FALSE, bindings, matched1, bound_nodes)
                      ELSE ExprMatch(TRUE, bindings, matched1, bound_nodes)
                  ELSE ExprMatch(FALSE, bindings, matched1, bound_nodes)
              ELSE IF expr.args # <<>> THEN ExprMatch(FALSE, bindings, matched1, bound_nodes)
              ELSE ExprMatch(TRUE, bindings, matched1, bound_nodes)

\* for arg_expr, input_id in zip(expr.args, input_ids)
MatchArgs(args, input_ids, k, diagram, bindings, matched, bound_nodes) ==
    IF k > Len(args) THEN ExprMatch(TRUE, bindings, matched, bound_nodes)
    ELSE LET Matched(result) ==
                 IF ~result.ok THEN result
                 ELSE MatchArgs(args, input_ids, k + 1, diagram, result.bindings,
                                result.matched, result.bound_nodes)
         IN  Matched(match_expr(args[k], input_ids[k], diagram, bindings,
                                matched, bound_nodes))

RECURSIVE FindExprLoop(_, _, _, _)
\* for node_id in nodes of find_expr_match
FindExprLoop(diagram, expr, keys, k) ==
    IF k > Len(keys)
        THEN [ok |-> FALSE, root_id |-> "", bindings |-> NoBindings,
              matched |-> {}, bound_nodes |-> {}]
    ELSE LET Matched(result) ==
                 IF result.ok
                     THEN [ok |-> TRUE, root_id |-> keys[k], bindings |-> result.bindings,
                           matched |-> result.matched, bound_nodes |-> result.bound_nodes]
                 ELSE FindExprLoop(diagram, expr, keys, k + 1)
         IN  Matched(match_expr(expr, keys[k], diagram, NoBindings, {}, {}))

find_expr_match(diagram, expr) == FindExprLoop(diagram, expr, NodeKeys(diagram), 1)

RECURSIVE build_expr(_, _, _, _, _), BuildArgs(_, _, _, _, _, _, _), BuildEdges(_, _, _, _, _)

\* edges.append({"id": new_edge_id(), "from": input_id, "to": node_id, ...})
\* for each input id, each id drawn after the edge before it was appended
BuildEdges(input_ids, k, node_id, edges, rule_id) ==
    IF k > Len(input_ids) THEN edges
    ELSE BuildEdges(input_ids, k + 1, node_id,
             Append(edges, Edge(next_edge_id(edges, rule_id \o "_e"),
                                input_ids[k], node_id, "arg")),
             rule_id)

\* [build_expr(a, ...) for a in expr.args]
BuildArgs(args, k, nodes, edges, bindings, rule_id, input_ids) ==
    IF k > Len(args)
        THEN [ok |-> TRUE, id |-> "", ids |-> input_ids, nodes |-> nodes, edges |-> edges]
    ELSE LET Built(r) ==
                 IF ~r.ok THEN r
                 ELSE BuildArgs(args, k + 1, r.nodes, r.edges, bindings, rule_id,
                                Append(input_ids, r.id))
         IN  Built(build_expr(args[k], nodes, edges, bindings, rule_id))

\* build_expr: the id of the node that stands for expr, with the node and
\* edge lists as the call leaves them; ok = FALSE is the ValueError for an
\* unbound variable
build_expr(expr, nodes, edges, bindings, rule_id) ==
    LET \* a bound variable stands for the node it is bound to
        Variable(node_id) ==
            [ok |-> node_id # "", id |-> node_id, ids |-> <<>>,
             nodes |-> nodes, edges |-> edges]
        \* any other atom becomes a new P node
        Leaf(node_id) ==
            [ok |-> TRUE, id |-> node_id, ids |-> <<>>,
             nodes |-> Append(nodes, Node(node_id, "P", <<>>, <<expr.name>>)),
             edges |-> edges]
        dof_refs == IF expr.op = "P" /\ expr.args # <<>>
                       /\ expr.args[1].kind = "Atom"
                       /\ ~is_variable(expr.args[1].name)
                    THEN <<expr.args[1].name>> ELSE <<>>
        \* an operator becomes a new node over the nodes of its arguments
        Inner(a, node_id) ==
            [ok |-> TRUE, id |-> node_id, ids |-> <<>>,
             nodes |-> Append(a.nodes, [Node(node_id, expr.op, a.ids, dof_refs)
                                           EXCEPT !.irreversible = (expr.op = "O")]),
             edges |-> BuildEdges(a.ids, 1, node_id, a.edges, rule_id)]
        Args(a) == IF ~a.ok THEN a ELSE Inner(a, next_node_id(a.nodes, rule_id \o "_n"))
    IN  IF expr.kind = "Atom" THEN
            IF is_variable(expr.name) THEN Variable(Get(bindings, lstrip_dollar(expr.name)))
            ELSE Leaf(next_node_id(nodes, rule_id \o "_n"))
        ELSE Args(BuildArgs(expr.args, 1, nodes, edges, bindings, rule_id, <<>>))

\* lines 491-508 of apply_rewrite_stub: drop the matched nodes that no
\* variable holds, point the edges that entered them at new_root, drop the
\* edges that left them
RemoveAndRewire(diagram, nodes, edges, remove_nodes, new_root) ==
    LET kept == {i \in DOMAIN edges :
                    edges[i].to \in remove_nodes \/ edges[i].from \notin remove_nodes}
        rewired == [i \in DOMAIN edges |->
                       IF edges[i].to \in remove_nodes
                           THEN [dict_copy(edges[i]).item EXCEPT !.to = new_root]
                       ELSE edges[i]]
    IN  [diagram EXCEPT
            !.nodes = Keep(nodes, {i \in DOMAIN nodes : nodes[i].id \notin remove_nodes}),
            !.edges = Keep(rewired, kept)]

\* The dict the caller passed as diagram, as the expression form leaves it:
\* its two lists receive what build_expr appended only if lines 481-482 did
\* not copy them, and an edge dict of it is rewired only if line 497 did not
\* copy it.
CallerAfterExpr(diagram, built_nodes, built_edges, remove_nodes, new_root) ==
    LET Left(nodes, edges) ==
            [diagram EXCEPT
                !.nodes = nodes,
                !.edges = [i \in DOMAIN edges |->
                              IF edges[i].to \in remove_nodes /\ dict_copy(edges[i]).shared
                                  THEN [edges[i] EXCEPT !.to = new_root]
                              ELSE edges[i]]]
    IN  Left(IF list_copy(diagram.nodes).shared THEN built_nodes ELSE diagram.nodes,
             IF list_copy(diagram.edges).shared THEN built_edges ELSE diagram.edges)

\* ------------------------------------------------------------------------
\* sid_rewrite.py: apply_rewrite_stub
\* ------------------------------------------------------------------------

\* RewriteResult(applied, diagram, messages), with three things the caller
\* also gets: raised (an exception left the call; no RewriteResult then),
\* the state dict as the call leaves it, and the diagram dict it passed in
\* as the call leaves it (caller); and applied_to, the matches whose
\* replacement the call carried out, each as the set of ids it consumed (the
\* matched nodes of an expression match, the edges of an edge-pattern match)
RewriteResult(applied, diagram, messages, state, caller) ==
    [raised |-> FALSE, applied |-> applied, diagram |-> diagram,
     messages |-> messages, state |-> state, caller |-> caller, applied_to |-> <<>>]

Raised(state, caller) ==
    [raised |-> TRUE, applied |-> FALSE, diagram |-> caller,
     messages |-> <<>>, state |-> state, caller |-> caller, applied_to |-> <<>>]

\* the applied_to of a result: the matches a call went through
AppliedTo(r, consumed) == IF r.applied THEN [r EXCEPT !.applied_to = consumed] ELSE r

Prefixed(level, msgs) == [i \in DOMAIN msgs |-> [msgs[i] EXCEPT !.level = level]]

\* lines 465-516: the expression form
ApplyExprForm(diagram, rewrite_rule, messages, state) ==
    LET \* lines 510-516: the cycle check on the rewritten diagram
        Checked(new_diagram, caller) ==
            IF has_cycle(new_diagram) THEN
                RewriteResult(FALSE, diagram,
                    Append(messages, Msg("ERROR", "would_introduce_cycle", rewrite_rule.id)),
                    state, caller)
            ELSE RewriteResult(TRUE, new_diagram,
                    Append(messages, Msg("", "applied", rewrite_rule.id)), state, caller)
        \* lines 489-508, after new_root = build_expr(...); an unbound
        \* variable of the replacement leaves the call as a ValueError
        Built(built, remove_nodes) ==
            IF ~built.ok THEN
                Raised(state, CallerAfterExpr(diagram, built.nodes, built.edges, {}, ""))
            ELSE Checked(RemoveAndRewire(diagram, built.nodes, built.edges,
                                         remove_nodes, built.id),
                         CallerAfterExpr(diagram, built.nodes, built.edges,
                                         remove_nodes, built.id))
        \* lines 475-488
        Matched(match, replacement_expr) ==
            IF ~match.ok THEN
                RewriteResult(FALSE, diagram,
                    Append(messages, Msg("", "not_applicable", rewrite_rule.id)),
                    state, diagram)
            ELSE AppliedTo(Built(build_expr(replacement_expr, list_copy(diagram.nodes).items,
                                            list_copy(diagram.edges).items, match.bindings,
                                            rewrite_rule.id),
                                 match.matched \ match.bound_nodes),
                           <<match.matched>>)
        \* lines 468-474
        Parsed(pattern_expr, replacement_expr) ==
            IF ~pattern_expr.ok \/ ~replacement_expr.ok THEN
                RewriteResult(FALSE, diagram,
                    Append(messages, Msg("ERROR", "parse_error", rewrite_rule.id)),
                    state, diagram)
            ELSE Matched(find_expr_match(diagram, pattern_expr.expr), replacement_expr.expr)
    IN  Parsed(parse_expression(rewrite_rule.pattern_expr),
               parse_expression(rewrite_rule.replacement_expr))

RECURSIVE ApplyMatches(_, _, _, _, _, _, _)
\* lines 533-545: for bindings in bindings_list.  The first call of
\* apply_replacement is on the caller's diagram, the later ones on the dict
\* the call before returned.
ApplyMatches(bindings_list, k, current, applied_any, replacement, rewrite_rule, acc) ==
    IF k > Len(bindings_list) THEN
        AppliedTo(RewriteResult(applied_any, current,
                      Append(acc.messages, Msg("", "applied", rewrite_rule.id)),
                      acc.state, acc.caller),
                  [i \in 1..Len(bindings_list) |-> bindings_list[i].edge_ids])
    ELSE LET Replaced(r, caller) ==
                 IF ~r.ok THEN
                     AppliedTo(RewriteResult(applied_any, current,
                                   Append(acc.messages,
                                          Msg("ERROR", "value_error", rewrite_rule.id)),
                                   acc.state, caller),
                               [i \in 1..(k - 1) |-> bindings_list[i].edge_ids])
                 ELSE ApplyMatches(bindings_list, k + 1, r.diagram, TRUE, replacement,
                                   rewrite_rule, [acc EXCEPT !.caller = caller])
             Called(r) == Replaced(r, IF k = 1 THEN r.source ELSE acc.caller)
         IN  Called(apply_replacement(current, replacement, bindings_list[k],
                                      rewrite_rule.id))

\* lines 518-545: the edge-pattern form
ApplyEdgeForm(diagram, rewrite_rule, apply_all, messages, state) ==
    LET \* lines 528-545
        Listed(bindings_list, replacement) ==
            IF bindings_list = <<>> THEN
                RewriteResult(FALSE, diagram,
                    Append(messages, Msg("", "not_applicable", rewrite_rule.id)),
                    state, diagram)
            ELSE ApplyMatches(bindings_list, 1, diagram, FALSE, replacement, rewrite_rule,
                              [messages |-> messages, state |-> state, caller |-> diagram])
        \* bindings_list = [b for b in bindings_list if b]
        Found(found, replacement) ==
            Listed(Keep(found, {i \in DOMAIN found : found[i].ok}), replacement)
        \* lines 518-527
        Parsed(pattern, replacement) ==
            IF ~pattern.ok \/ ~replacement.ok THEN
                RewriteResult(FALSE, diagram,
                    Append(messages, Msg("ERROR", "parse_error", rewrite_rule.id)),
                    state, diagram)
            ELSE Found(IF apply_all THEN find_all_matches(diagram, pattern, MAX_MATCHES)
                       ELSE <<find_first_match(diagram, pattern, {})>>,
                       replacement)
    IN  Parsed(parse_rule_pattern(rewrite_rule.pattern),
               parse_rule_pattern(rewrite_rule.replacement))

\* rule.get("pattern_expr") and rule.get("replacement_expr") are both non-empty
HasExprForm(rule) == rule.pattern_expr # <<>> /\ rule.replacement_expr # <<>>

apply_rewrite_stub(constraints, state, diagram, csi, rewrite_rule, apply_all) ==
    LET Authorized(auth, messages) ==
            IF ~auth.authorized THEN
                RewriteResult(FALSE, diagram, messages \o Prefixed("ERROR", auth.errors),
                              auth.state, diagram)
            ELSE IF HasExprForm(rewrite_rule)
                THEN ApplyExprForm(diagram, rewrite_rule, messages, auth.state)
            ELSE ApplyEdgeForm(diagram, rewrite_rule, apply_all, messages, auth.state)
        Decided(auth) == Authorized(auth, Prefixed("WARNING", auth.warnings))
    IN  Decided(authorize_rewrite(constraints,
                                  WithLabels(state, diagram, constraints, csi),
                                  diagram, csi, rewrite_rule))

\* ------------------------------------------------------------------------
\* sid_crf.py: the conflict resolvers, on a heap of dict and list objects
\* ------------------------------------------------------------------------

\* A heap h: h.lists[a] is the list object at address a (its items are
\* strings: constraint ids, element ids, choices, or the name of a
\* conflict_details dict), h.dicts[i] the state dict at address i, h.details
\* the conflict_details dicts by name, h.diagram the diagram dict.  In a dict
\* a list-valued key holds the address of its list, 0 when the key is absent;
\* a string-valued key holds "" when it is absent.
StateDict ==
    [attenuated_constraints |-> 0, deferred_conflicts |-> 0, partitioned_elements |-> 0,
     escalated_conflicts |-> 0, bifurcated |-> FALSE, bifurcation_choices |-> 0,
     halted |-> FALSE, halt_reason |-> [text |-> "", type |-> ""]]

\* ConflictResolution(action, success, message, data, new_state); new_state
\* is the address of the state dict returned
ConflictResolution(action, success, message, data, new_state) ==
    [action |-> action, success |-> success, message |-> message, data |-> data,
     new_state |-> new_state]

\* the data dict of a resolution: details names the conflict_details dict
\* when data is that dict itself
Data == [constraint_id |-> "", details |-> "", elements |-> 0, choices |-> 0,
         reason |-> [text |-> "", type |-> ""]]

Message(code, text, count) == [code |-> code, text |-> text, count |-> count]

\* new_state = dict(state): the address of the copy and the heap that holds it
NewState(h, state) ==
    LET Copied(c) ==
            IF c.shared THEN [heap |-> h, at |-> state]
            ELSE [heap |-> [h EXCEPT !.dicts = Append(@, c.item)], at |-> Len(h.dicts) + 1]
    IN  Copied(dict_copy(h.dicts[state]))

\* if key not in new_state: new_state[key] = [] else: new_state[key] =
\* list(new_state[key]); then new_state[key].append / .extend: the address of
\* the list that received items, and the heap after it
Extended(h, at, items) ==
    LET Copied(c) ==
            IF c.shared THEN [heap |-> [h EXCEPT !.lists[at] = @ \o items], at |-> at]
            ELSE [heap |-> [h EXCEPT !.lists = Append(@, c.items \o items)],
                  at |-> Len(h.lists) + 1]
    IN  IF at = 0 THEN [heap |-> [h EXCEPT !.lists = Append(@, items)], at |-> Len(h.lists) + 1]
        ELSE Copied(list_copy(h.lists[at]))

\* conflict_details.get(key, []): the address of the list, a new empty list
\* when the key is absent
GetList(h, at) ==
    IF at = 0 THEN [heap |-> [h EXCEPT !.lists = Append(@, <<>>)], at |-> Len(h.lists) + 1]
    ELSE [heap |-> h, at |-> at]

attenuate(h, conflict_details, state, diagram) ==
    LET constraint_id == IF h.details[conflict_details].constraint_id = "" THEN "unknown"
                         ELSE h.details[conflict_details].constraint_id
        Appended(n, l) ==
            [heap |-> [l.heap EXCEPT !.dicts[n.at].attenuated_constraints = l.at],
             resolution |->
                 ConflictResolution("attenuate", TRUE, Message("attenuated", constraint_id, 0),
                     [Data EXCEPT !.constraint_id = constraint_id], n.at)]
        Copied(n) ==
            Appended(n, Extended(n.heap, n.heap.dicts[n.at].attenuated_constraints,
                                 <<constraint_id>>))
    IN  Copied(NewState(h, state))

defer(h, conflict_details, state, diagram) ==
    LET conflict_type == IF h.details[conflict_details].type = "" THEN "unknown"
                         ELSE h.details[conflict_details].type
        Appended(n, l) ==
            [heap |-> [l.heap EXCEPT !.dicts[n.at].deferred_conflicts = l.at],
             resolution |->
                 ConflictResolution("defer", TRUE, Message("deferred", conflict_type, 0),
                     [Data EXCEPT !.details = conflict_details], n.at)]
        Copied(n) ==
            Appended(n, Extended(n.heap, n.heap.dicts[n.at].deferred_conflicts,
                                 <<conflict_details>>))
    IN  Copied(NewState(h, state))

partition(h, conflict_details, state, diagram) ==
    LET Appended(n, elements, l) ==
            [heap |-> [l.heap EXCEPT !.dicts[n.at].partitioned_elements = l.at],
             resolution |->
                 ConflictResolution("partition", TRUE,
                     Message("partitioned", "", Len(l.heap.lists[elements])),
                     [Data EXCEPT !.elements = elements], n.at)]
        Copied(e, n) ==
            Appended(n, e.at, Extended(n.heap, n.heap.dicts[n.at].partitioned_elements,
                                       n.heap.lists[e.at]))
        Elements(e) == Copied(e, NewState(e.heap, state))
    IN  Elements(GetList(h, h.details[conflict_details].conflicting_elements))

escalate(h, conflict_details, state, diagram) ==
    LET conflict_scope == IF h.details[conflict_details].scope = "" THEN "local"
                          ELSE h.details[conflict_details].scope
        Appended(n, l) ==
            [heap |-> [l.heap EXCEPT !.dicts[n.at].escalated_conflicts = l.at],
             resolution |->
                 ConflictResolution("escalate", TRUE, Message("escalated", conflict_scope, 0),
                     [Data EXCEPT !.details = conflict_details], n.at)]
        Copied(n) ==
            Appended(n, Extended(n.heap, n.heap.dicts[n.at].escalated_conflicts,
                                 <<conflict_details>>))
    IN  Copied(NewState(h, state))

bifurcate(h, conflict_details, state, diagram) ==
    LET Copied(c, n) ==
            [heap |-> [n.heap EXCEPT !.dicts[n.at].bifurcated = TRUE,
                                     !.dicts[n.at].bifurcation_choices = c.at],
             resolution |->
                 ConflictResolution("bifurcate", TRUE,
                     Message("bifurcated", "", Len(n.heap.lists[c.at])),
                     [Data EXCEPT !.choices = c.at], n.at)]
        Choices(c) == Copied(c, NewState(c.heap, state))
    IN  Choices(GetList(h, h.details[conflict_details].choices))

\* halt on a reason: the body of halt once reason and data are known
HaltWith(h, reason, data, state) ==
    LET Copied(n) ==
            [heap |-> [n.heap EXCEPT !.dicts[n.at].halted = TRUE,
                                     !.dicts[n.at].halt_reason = reason],
             resolution |->
                 ConflictResolution("halt", FALSE, Message("halted", reason.text, 0),
                                    data, n.at)]
    IN  Copied(NewState(h, state))

halt(h, conflict_details, state, diagram) ==
    HaltWith(h,
        IF h.details[conflict_details].reason = ""
            THEN [text |-> "Unresolvable hard constraint violation", type |-> ""]
        ELSE [text |-> h.details[conflict_details].reason, type |-> ""],
        [Data EXCEPT !.details = conflict_details], state)

\* resolve_conflict with a lenient default: an unknown type is attenuated
resolve_conflict_lenient(h, conflict_type, conflict_details, state, diagram) ==
    IF conflict_type = "hard_violation" THEN halt(h, conflict_details, state, diagram)
    ELSE IF conflict_type = "ambiguous_choice" THEN bifurcate(h, conflict_details, state, diagram)
    ELSE IF conflict_type = "scope_overflow" THEN escalate(h, conflict_details, state, diagram)
    ELSE IF conflict_type = "dof_interference" THEN partition(h, conflict_details, state, diagram)
    ELSE IF conflict_type = "temporal_mismatch" THEN defer(h, conflict_details, state, diagram)
    ELSE attenuate(h, conflict_details, state, diagram)

\* resolve_conflict; for an unknown type halt is called on a new dict
\* {"reason": "Unknown conflict type: <type>"}
resolve_conflict(h, conflict_type, conflict_details, state, diagram) ==
    IF conflict_type = "hard_violation" THEN halt(h, conflict_details, state, diagram)
    ELSE IF conflict_type = "ambiguous_choice" THEN bifurcate(h, conflict_details, state, diagram)
    ELSE IF conflict_type = "scope_overflow" THEN escalate(h, conflict_details, state, diagram)
    ELSE IF conflict_type = "dof_interference" THEN partition(h, conflict_details, state, diagram)
    ELSE IF conflict_type = "temporal_mismatch" THEN defer(h, conflict_details, state, diagram)
    ELSE IF conflict_type = "soft_violation" THEN attenuate(h, conflict_details, state, diagram)
    ELSE HaltWith(h, [text |-> "Unknown conflict type", type |-> conflict_type],
                  [Data EXCEPT !.reason = [text |-> "Unknown conflict type",
                                           type |-> conflict_type]],
                  state)

\* ------------------------------------------------------------------------
\* sid_validator.py
\* ------------------------------------------------------------------------

RECURSIVE Concat(_)
\* the lists of ss, one after the other
Concat(ss) == IF ss = <<>> THEN <<>> ELSE Head(ss) \o Concat(Tail(ss))

\* ValidationError(category, ...): what names the kind of thing the message
\* is about, ref the id the message names
Finding(category, what, ref) == [category |-> category, what |-> what, ref |-> ref]

\* index_by_id: the positions that enter the index (the first item of each
\* id), and the errors.  missing is the value of an absent id.
IndexPositions(items, missing) ==
    {i \in DOMAIN items :
        items[i].id # missing /\ \A j \in 1..(i - 1) : items[j].id # items[i].id}

IndexErrors(items, missing, item_type) ==
    Concat([i \in DOMAIN items |->
        IF items[i].id = missing THEN <<Finding("missing_id", item_type, "")>>
        ELSE IF \E j \in 1..(i - 1) : items[j].id = items[i].id
            THEN <<Finding("duplicate_id", item_type, items[i].id)>>
        ELSE <<>>])

\* index.values(), in insertion order
Indexed(items, missing) == Keep(items, IndexPositions(items, missing))

IdSet(items) == {items[i].id : i \in DOMAIN items}

\* index.get(id): the indexed item of that id; ok = FALSE when there is none
Lookup(items, missing, id) ==
    LET at == {i \in IndexPositions(items, missing) : items[i].id = id} IN
    IF at = {} THEN [ok |-> FALSE, at |-> 0] ELSE [ok |-> TRUE, at |-> CHOOSE i \in at : TRUE]

validate_collapse_irreversibility(diagrams) ==
    Concat([d \in DOMAIN diagrams |->
        Concat([i \in DOMAIN diagrams[d].nodes |->
            IF diagrams[d].nodes[i].op = "O" /\ ~diagrams[d].nodes[i].irreversible
                THEN <<Finding("collapse_not_irreversible", diagrams[d].id,
                               diagrams[d].nodes[i].id)>>
            ELSE <<>>])])

\* the pair loop of one edge in validate_csi_boundaries
PairFindings(diagram, edge, allowed_pairs) ==
    IF ~HasNode(diagram, edge.from) \/ ~HasNode(diagram, edge.to) THEN <<>>
    ELSE LET from_dofs == NodeAt(diagram, edge.from).dof_refs
             to_dofs   == NodeAt(diagram, edge.to).dof_refs
         IN  Concat([f \in DOMAIN from_dofs |->
                 Concat([t \in DOMAIN to_dofs |->
                     IF <<from_dofs[f], to_dofs[t]>> \notin allowed_pairs
                         THEN <<Finding("csi_pair_violation", diagram.id, edge.id)>>
                     ELSE <<>>])])

validate_csi_boundaries(diagrams, states, csis, dofs) ==
    Concat([k \in DOMAIN states |->
        LET state == states[k]
            d == Lookup(diagrams, "", state.diagram_id)
            c == Lookup(csis, "", state.csi_id)
        IN  IF ~d.ok \/ ~c.ok THEN <<Finding("missing_reference", "state", state.id)>>
            ELSE LET diagram == diagrams[d.at]
                     csi     == csis[c.at]
                     allowed_dofs  == Range(csi.allowed_dofs)
                     pairs         == csi.allowed_pairs
                     allowed_pairs == {q \in Range(pairs) : Len(q) = 2}
                 IN  Concat([q \in DOMAIN pairs |->
                         IF Len(pairs[q]) # 2 THEN <<Finding("invalid_csi_pair", "csi", csi.id)>>
                         ELSE (IF pairs[q][1] \notin IdSet(dofs)
                                  THEN <<Finding("invalid_csi_pair_dof", "csi", csi.id)>>
                               ELSE <<>>)
                              \o (IF pairs[q][2] \notin IdSet(dofs)
                                     THEN <<Finding("invalid_csi_pair_dof", "csi", csi.id)>>
                                  ELSE <<>>)])
                     \o Concat([i \in DOMAIN diagram.nodes |->
                         Concat([r \in DOMAIN diagram.nodes[i].dof_refs |->
                             IF diagram.nodes[i].dof_refs[r] \notin allowed_dofs
                                 THEN <<Finding("dof_outside_csi", diagram.id,
                                                diagram.nodes[i].id)>>
                             ELSE <<>>])])
                     \o (IF allowed_pairs = {} THEN <<>>
                         ELSE Concat([e \in DOMAIN diagram.edges |->
                                  PairFindings(diagram, diagram.edges[e], allowed_pairs)]))])

\* validate_diagram_integrity, one diagram
DiagramFindings(diagram, dofs, compartments) ==
    LET nodes == diagram.nodes
        edges == diagram.edges
        known == NodeIdSet(diagram)
    IN  Concat([i \in DOMAIN nodes |->
            IF nodes[i].id = "" THEN <<Finding("missing_id", "node", diagram.id)>>
            ELSE (IF \E j \in 1..(i - 1) : nodes[j].id = nodes[i].id
                      THEN <<Finding("duplicate_id", "node", nodes[i].id)>> ELSE <<>>)
                 \o Concat([r \in DOMAIN nodes[i].dof_refs |->
                        IF nodes[i].dof_refs[r] \notin IdSet(dofs)
                            THEN <<Finding("missing_reference", "dof", nodes[i].id)>>
                        ELSE <<>>])])
        \o Concat([i \in DOMAIN edges |->
            IF edges[i].id = "" THEN <<Finding("missing_id", "edge", diagram.id)>>
            ELSE (IF \E j \in 1..(i - 1) : edges[j].id = edges[i].id
                      THEN <<Finding("duplicate_id", "edge", edges[i].id)>> ELSE <<>>)
                 \o (IF edges[i].from \notin known \/ edges[i].to \notin known
                         THEN <<Finding("missing_reference", "edge", edges[i].id)>>
                     ELSE <<>>)])
        \o Concat([i \in DOMAIN nodes |->
            Concat([r \in DOMAIN nodes[i].inputs |->
                IF nodes[i].inputs[r] \notin known
                    THEN <<Finding("missing_reference", "input", nodes[i].id)>>
                ELSE <<>>])])
        \o (IF diagram.compartment_id # "" /\ diagram.compartment_id \notin IdSet(compartments)
                THEN <<Finding("missing_reference", "compartment", diagram.id)>>
            ELSE <<>>)

validate_diagram_integrity(diagrams, dofs, compartments) ==
    Concat([d \in DOMAIN diagrams |-> DiagramFindings(diagrams[d], dofs, compartments)])

validate_state_integrity(states, diagrams, csis, compartments) ==
    Concat([k \in DOMAIN states |->
        (IF states[k].diagram_id \notin IdSet(diagrams)
             THEN <<Finding("missing_reference", "state_diagram", states[k].id)>> ELSE <<>>)
        \o (IF states[k].csi_id \notin IdSet(csis)
                THEN <<Finding("missing_reference", "state_csi", states[k].id)>> ELSE <<>>)
        \o (IF states[k].compartment_id # ""
                /\ states[k].compartment_id \notin IdSet(compartments)
                THEN <<Finding("missing_reference", "state_compartment", states[k].id)>>
            ELSE <<>>)])

\* the loop over rewrite_rules of validate_package
RuleFindings(rule) ==
    LET has_edge_form == rule.pattern # <<>> /\ rule.replacement # <<>>
        has_expr_form == HasExprForm(rule)
    IN  (IF ~has_edge_form /\ ~has_expr_form
             THEN <<Finding("invalid_rewrite_rule", "rule", rule.id)>> ELSE <<>>)
        \o (IF has_expr_form /\ (~parse_expression(rule.pattern_expr).ok
                                  \/ ~parse_expression(rule.replacement_expr).ok)
                THEN <<Finding("invalid_rewrite_expr", "rule", rule.id)>> ELSE <<>>)

\* lines 385-391: the states of the index get labels if they hold none and
\* their diagram and CSI resolve; the dicts are those of pkg["states"]
InitLabels(pkg, diagrams, csis) ==
    [k \in DOMAIN pkg.states |->
        LET state == pkg.states[k]
            d == Lookup(diagrams, "", state.diagram_id)
            c == Lookup(csis, "", state.csi_id)
        IN  IF k \in IndexPositions(pkg.states, "") /\ d.ok /\ c.ok /\ ~state.has_labels
                THEN [state EXCEPT !.has_labels = TRUE,
                         !.inu_labels = assign_inu_labels(diagrams[d.at], pkg.constraints,
                                                          state, csis[c.at])]
            ELSE state]

\* lines 393-411: evaluate_constraints for each indexed state whose diagram
\* and CSI resolve
StateEvaluations(pkg, states, diagrams, csis) ==
    [k \in DOMAIN states |->
        LET d == Lookup(diagrams, "", states[k].diagram_id)
            c == Lookup(csis, "", states[k].csi_id)
        IN  IF ~d.ok \/ ~c.ok THEN [errors |-> <<>>, warnings |-> <<>>]
            ELSE evaluate_constraints(pkg.constraints, states[k],
                                      diagrams[d.at], csis[c.at])]

\* validate_package: its two lists and the package's states as it leaves them
validate_package(pkg) ==
    LET Report(diagrams, csis, dofs, compartments, labelled, states, evals) ==
            [errors |->
                 IndexErrors(pkg.diagrams, "", "diagram")
                 \o IndexErrors(pkg.csis, "", "CSI")
                 \o IndexErrors(pkg.dofs, <<>>, "DOF")
                 \o IndexErrors(pkg.compartments, "", "compartment")
                 \o IndexErrors(pkg.states, "", "state")
                 \o validate_diagram_integrity(diagrams, dofs, compartments)
                 \o validate_state_integrity(states, diagrams, csis, compartments)
                 \o validate_collapse_irreversibility(diagrams)
                 \o validate_csi_boundaries(diagrams, states, csis, dofs)
                 \o Concat([r \in DOMAIN pkg.rewrite_rules |->
                               RuleFindings(pkg.rewrite_rules[r])])
                 \o Concat([k \in DOMAIN states |->
                               [e \in DOMAIN evals[k].errors |->
                                   Finding("constraint_violation", states[k].id,
                                           evals[k].errors[e].ref)]]),
             warnings |-> Concat([k \in DOMAIN states |-> evals[k].warnings]),
             states |-> labelled]
        Evaluated(diagrams, csis, dofs, compartments, labelled, states) ==
            Report(diagrams, csis, dofs, compartments, labelled, states,
                   StateEvaluations(pkg, states, diagrams, csis))
        Labelled(diagrams, csis, dofs, compartments, labelled) ==
            Evaluated(diagrams, csis, dofs, compartments, labelled, Indexed(labelled, ""))
        Indexes(diagrams, csis, dofs, compartments) ==
            Labelled(diagrams, csis, dofs, compartments, InitLabels(pkg, diagrams, csis))
    IN  Indexes(Indexed(pkg.diagrams, ""), Indexed(pkg.csis, ""),
                Indexed(pkg.dofs, <<>>), Indexed(pkg.compartments, ""))

\* ------------------------------------------------------------------------
\* sid_rewrite.py: apply_rewrites_stub and apply_rewrites_to_package
\* ------------------------------------------------------------------------

MAX_REWRITE_ITERATIONS == 1000

\* {x["id"]: x for x in items if "id" in x}.get(id): the last item of that
\* id; ok = FALSE when there is none
LookupLast(items, id) ==
    LET at == {i \in DOMAIN items : items[i].id = id /\ id # ""} IN
    IF at = {} THEN [ok |-> FALSE, at |-> 0]
    ELSE [ok |-> TRUE, at |-> CHOOSE i \in at : \A j \in at : j <= i]

\* copy.deepcopy(diagram or {}) for diagram = None
EmptyDiagram == [id |-> "", compartment_id |-> "", nodes |-> <<>>, edges |-> <<>>]

\* lines 609-613: diagrams[idx] = result.diagram for the first diagram of
\* that id
SwapDiagram(diagrams, diagram_id, new_diagram) ==
    LET at == {i \in DOMAIN diagrams : diagrams[i].id = diagram_id} IN
    IF at = {} THEN diagrams
    ELSE [diagrams EXCEPT ![CHOOSE i \in at : \A j \in at : i <= j] = new_diagram]

\* the relabelling that keeps the labels a state already holds
Relabel_missing_only(pkg, diagram_id, new_diagram) ==
    [k \in DOMAIN pkg.states |->
        LET state == pkg.states[k]
            c == LookupLast(pkg.csis, state.csi_id)
        IN  IF state.diagram_id # diagram_id \/ ~c.ok THEN state
            ELSE WithLabels(state, new_diagram, pkg.constraints, pkg.csis[c.at])]

\* lines 615-626: every state of that diagram id whose CSI resolves gets
\* the labels of the new diagram, whatever it held
Relabel(pkg, diagram_id, new_diagram) ==
    [k \in DOMAIN pkg.states |->
        LET state == pkg.states[k]
            c == LookupLast(pkg.csis, state.csi_id)
        IN  IF state.diagram_id # diagram_id \/ ~c.ok THEN state
            ELSE [state EXCEPT !.has_labels = TRUE,
                     !.inu_labels = assign_inu_labels(new_diagram, pkg.constraints,
                                                      state, pkg.csis[c.at])]]

\* ------------------------------------------------------------------------
\* sid_rewrite.py: rule_applicable
\* ------------------------------------------------------------------------

\* rule_applicable without the search for a match: every rule counts as
\* applicable
rule_applicable_unmatched(diagram, rule) == TRUE

\* a ValueError of either parser is "not applicable"
rule_applicable(diagram, rule) ==
    LET ExprFound(p) == p.ok /\ find_expr_match(diagram, p.expr).ok
        EdgeFound(p) == p.ok /\ find_first_match(diagram, p, {}).ok
    IN  IF rule.pattern_expr # <<>> /\ rule.replacement_expr # <<>>
            THEN ExprFound(parse_expression(rule.pattern_expr))
        ELSE IF rule.pattern = <<>> \/ rule.replacement = <<>> THEN FALSE
        ELSE EdgeFound(parse_rule_pattern(rule.pattern))

\* ------------------------------------------------------------------------
\* sid_stability.py: the termination conditions and the metrics
\* ------------------------------------------------------------------------

\* Tuple[bool, str]: msg is what the message says, ref the id it names;
\* state is the state dict as the call leaves it
CheckResult(ok, msg, ref, state) == [ok |-> ok, msg |-> msg, ref |-> ref, state |-> state]

\* states.get(state_id) for an id the package does not hold
NoState == [id |-> "", diagram_id |-> "", csi_id |-> "", compartment_id |-> "",
            has_labels |-> FALSE, inu_labels |-> NoLabels, loop_history |-> <<>>]

\* the three lookups at the head of the stability functions: where the
\* state, the diagram and the state's CSI are in the package
References(pkg, state_id, diagram_id) ==
    LET Found(s, d) ==
            [state |-> s, diagram |-> d,
             csi |-> IF s.ok THEN LookupLast(pkg.csis, pkg.states[s.at].csi_id)
                     ELSE [ok |-> FALSE, at |-> 0]]
    IN  Found(LookupLast(pkg.states, state_id), LookupLast(pkg.diagrams, diagram_id))

RECURSIVE NoAdmissibleLoop(_, _, _, _, _, _)
\* for rule in rewrite_rules (lines 40-46); authorize_rewrite is given the
\* package's state dict and leaves its labels in it
NoAdmissibleLoop(rewrite_rules, k, constraints, state, diagram, csi) ==
    IF k > Len(rewrite_rules) THEN CheckResult(TRUE, "no_admissible_rewrites", "", state)
    ELSE LET Verdict(v) ==
                 IF v.authorized /\ rule_applicable(diagram, rewrite_rules[k])
                     THEN CheckResult(FALSE, "still_admissible", rewrite_rules[k].id, v.state)
                 ELSE NoAdmissibleLoop(rewrite_rules, k + 1, constraints, v.state,
                                       diagram, csi)
         IN  Verdict(authorize_rewrite(constraints, state, diagram, csi, rewrite_rules[k]))

check_no_admissible_rewrites(pkg, state_id, diagram_id) ==
    LET Looked(at) ==
            IF ~at.state.ok \/ ~at.diagram.ok \/ ~at.csi.ok
                THEN CheckResult(FALSE, "missing_reference", "",
                             IF at.state.ok THEN pkg.states[at.state.at] ELSE NoState)
            ELSE NoAdmissibleLoop(pkg.rewrite_rules, 1, pkg.constraints,
                                  pkg.states[at.state.at], pkg.diagrams[at.diagram.at],
                                  pkg.csis[at.csi.at])
    IN  Looked(References(pkg, state_id, diagram_id))

check_invariant_under_transport(diagram, state, csi, constraints) ==
    LET current_labels == LabelsOf(state)
        Compared(computed_labels, transport_nodes) ==
            LET admissible_ids == {k \in DOMAIN computed_labels : computed_labels[k] = "I"}
                outside == {i \in DOMAIN transport_nodes :
                               transport_nodes[i].id \notin admissible_ids}
                lost == {key \in DOMAIN current_labels :
                            /\ current_labels[key] = "I"
                            /\ key \notin admissible_ids}
            IN  IF transport_nodes = <<>>
                    THEN CheckResult(TRUE, "no_transport", "", state)
                ELSE IF outside # {}
                    THEN CheckResult(FALSE, "transport_not_admissible",
                                 transport_nodes[CHOOSE i \in outside :
                                                    \A j \in outside : i <= j].id,
                                 state)
                ELSE IF lost # {}
                    THEN CheckResult(FALSE, "no_longer_admissible", "", state)
                ELSE CheckResult(TRUE, "invariant_under_transport", "", state)
    IN  Compared(assign_inu_labels(diagram, constraints, state, csi),
                 Keep(diagram.nodes, {i \in DOMAIN diagram.nodes : diagram.nodes[i].op = "T"}))

RECURSIVE IdentityLoop(_, _, _)
\* rule.get("pattern") or rule.get("pattern_expr"): the first of the two
\* texts that is not empty
IdentityLoop(rewrite_rules, k, state) ==
    IF k > Len(rewrite_rules) THEN CheckResult(TRUE, "only_identity_rewrites", "", state)
    ELSE LET rule == rewrite_rules[k]
             pattern == IF rule.pattern # <<>> THEN rule.pattern ELSE rule.pattern_expr
             replacement == IF rule.replacement # <<>> THEN rule.replacement
                            ELSE rule.replacement_expr
         IN  IF pattern # replacement
                 THEN CheckResult(FALSE, "non_identity_rewrite", rule.id, state)
             ELSE IdentityLoop(rewrite_rules, k + 1, state)

\* check_only_identity_rewrites takes no state; the one of the result is
\* NoState
check_only_identity_rewrites(rewrite_rules, diagram) ==
    IdentityLoop(rewrite_rules, 1, NoState)

\* prev_state.get(key) != curr_state.get(key) for the keys of either map
Changed(prev_state, curr_state) ==
    {key \in DOMAIN prev_state \cup DOMAIN curr_state :
        \/ key \notin DOMAIN prev_state
        \/ key \notin DOMAIN curr_state
        \/ prev_state[key] # curr_state[key]}

\* check_loop_convergence with change_ratio <= tolerance in place of <
check_loop_convergence_inclusive(state, tolerance) ==
    LET loop_history == state.loop_history
        Compared(prev_state, curr_state) ==
            LET changes == Cardinality(Changed(prev_state, curr_state))
                all_keys == DOMAIN prev_state \cup DOMAIN curr_state
            IN  IF changes = 0 THEN CheckResult(TRUE, "fully_converged", "", state)
                ELSE IF changes * tolerance.den <= tolerance.num * Cardinality(all_keys)
                    THEN CheckResult(TRUE, "converged", "", state)
                ELSE CheckResult(FALSE, "not_converged", "", state)
    IN  IF Len(loop_history) < 2 THEN CheckResult(FALSE, "insufficient_history", "", state)
        ELSE Compared(loop_history[Len(loop_history) - 1].inu_labels,
                      loop_history[Len(loop_history)].inu_labels)

\* a tolerance is the fraction num / den.  change_ratio < tolerance is
\* changes / len(all_keys) < num / den, with change_ratio = 0 for no keys
check_loop_convergence(state, tolerance) ==
    LET loop_history == state.loop_history
        Compared(prev_state, curr_state) ==
            LET changes == Cardinality(Changed(prev_state, curr_state))
                all_keys == DOMAIN prev_state \cup DOMAIN curr_state
            IN  IF changes = 0 THEN CheckResult(TRUE, "fully_converged", "", state)
                ELSE IF changes * tolerance.den < tolerance.num * Cardinality(all_keys)
                    THEN CheckResult(TRUE, "converged", "", state)
                ELSE CheckResult(FALSE, "not_converged", "", state)
    IN  IF Len(loop_history) < 2 THEN CheckResult(FALSE, "insufficient_history", "", state)
        ELSE Compared(loop_history[Len(loop_history) - 1].inu_labels,
                      loop_history[Len(loop_history)].inu_labels)

\* is_structurally_stable: (is_stable, satisfied_conditions, message) and
\* the state dict as the call leaves it.  The four checks run in this order
\* on the same state dict, so the second one reads the labels the first one
\* may have written.
is_structurally_stable(pkg, state_id, diagram_id, tolerance, require_all) ==
    LET Stable(is_stable, satisfied, message, state) ==
            [is_stable |-> is_stable, satisfied |-> satisfied, message |-> message,
             state |-> state]
        Taken(satisfied, c) == IF c.ok THEN Append(satisfied, c.msg) ELSE satisfied
        Judged(satisfied, state) ==
            IF require_all
                THEN Stable(Len(satisfied) = 4, satisfied,
                            IF Len(satisfied) = 4 THEN "stable_all" ELSE "not_stable_need_all",
                            state)
            ELSE Stable(Len(satisfied) > 0, satisfied,
                        IF Len(satisfied) > 0 THEN "stable" ELSE "not_stable", state)
        Fourth(satisfied, state) ==
            Judged(Taken(satisfied, check_loop_convergence(state, tolerance)), state)
        Third(satisfied, state, diagram) ==
            Fourth(Taken(satisfied,
                         check_only_identity_rewrites(pkg.rewrite_rules, diagram)),
                   state)
        Second(satisfied, state, diagram, csi) ==
            Third(Taken(satisfied,
                        check_invariant_under_transport(diagram, state, csi,
                                                        pkg.constraints)),
                  state, diagram)
        First(no_rewrites, diagram, csi) ==
            Second(Taken(<<>>, no_rewrites), no_rewrites.state, diagram, csi)
        Looked(at) ==
            IF ~at.state.ok \/ ~at.diagram.ok \/ ~at.csi.ok
                THEN Stable(FALSE, <<>>, "missing_reference",
                            IF at.state.ok THEN pkg.states[at.state.at] ELSE NoState)
            ELSE First(check_no_admissible_rewrites(pkg, state_id, diagram_id),
                       pkg.diagrams[at.diagram.at], pkg.csis[at.csi.at])
    IN  Looked(References(pkg, state_id, diagram_id))

\* a metric value: None, or the quotient num / den of the two counts (the
\* literal 0 of the else branches is 0 / 1)
Undefined == [none |-> TRUE, num |-> 0, den |-> 1]
Quotient(num, den) == [none |-> FALSE, num |-> num, den |-> den]

\* len([n for n in nodes if n.get("op") == op])
CountOp(nodes, op) == Cardinality({i \in DOMAIN nodes : nodes[i].op = op})

\* compute_stability_metrics: empty = TRUE is the {} returned for a missing
\* state or diagram
compute_stability_metrics(pkg, state_id, diagram_id) ==
    LET Metrics(state, nodes) ==
            LET inu_labels == LabelsOf(state)
                admissible_count ==
                    Cardinality({k \in DOMAIN inu_labels : inu_labels[k] = "I"})
                total_count == Cardinality(DOMAIN inu_labels)
                transport_count == CountOp(nodes, "T")
                valid_transports ==
                    Cardinality({i \in DOMAIN nodes :
                                    nodes[i].op = "T" /\ nodes[i].target # ""})
                loop_history == state.loop_history
                Gain(prev, curr) ==
                    IF DOMAIN prev \cup DOMAIN curr # {}
                        THEN Quotient(Cardinality(Changed(prev, curr)),
                                      Cardinality(DOMAIN prev \cup DOMAIN curr))
                    ELSE Quotient(0, 1)
            IN  [empty |-> FALSE,
                 admissible_volume |-> admissible_count,
                 admissible_ratio |-> IF total_count > 0
                                          THEN Quotient(admissible_count, total_count)
                                      ELSE Quotient(0, 1),
                 collapse_count |-> CountOp(nodes, "O"),
                 collapse_ratio |-> IF nodes # <<>>
                                        THEN Quotient(CountOp(nodes, "O"), Len(nodes))
                                    ELSE Quotient(0, 1),
                 coupling_count |-> CountOp(nodes, "C"),
                 gradient_coherence |-> IF nodes # <<>>
                                            THEN Quotient(CountOp(nodes, "C"), Len(nodes))
                                        ELSE Quotient(0, 1),
                 transport_count |-> transport_count,
                 transport_fidelity |-> IF transport_count > 0
                                            THEN Quotient(valid_transports, transport_count)
                                        ELSE Undefined,
                 loop_gain |-> IF Len(loop_history) >= 2
                                   THEN Gain(loop_history[Len(loop_history) - 1].inu_labels,
                                             loop_history[Len(loop_history)].inu_labels)
                               ELSE Undefined]
        NoMetrics ==
            [empty |-> TRUE, admissible_volume |-> 0, admissible_ratio |-> Undefined,
             collapse_count |-> 0, collapse_ratio |-> Undefined, coupling_count |-> 0,
             gradient_coherence |-> Undefined, transport_count |-> 0,
             transport_fidelity |-> Undefined, loop_gain |-> Undefined]
        Looked(s, d) ==
            IF ~s.ok \/ ~d.ok THEN NoMetrics
            ELSE Metrics(pkg.states[s.at], pkg.diagrams[d.at].nodes)
    IN  Looked(LookupLast(pkg.states, state_id), LookupLast(pkg.diagrams, diagram_id))

\* ------------------------------------------------------------------------
\* sid_ast_to_diagram.py: the AST -> diagram compiler
\* ------------------------------------------------------------------------

\* DiagramBuild: the node and edge lists under construction and the counter
\* that node ids and edge ids share
DiagramBuild(nodes, edges, counter) ==
    [nodes |-> nodes, edges |-> edges, counter |-> counter]

\* DiagramBuild.next_id(prefix): the build with the counter moved on, and
\* the id made from it
next_id(build, prefix) ==
    [build |-> [build EXCEPT !.counter = @ + 1],
     id |-> prefix \o ToString(build.counter + 1)]

\* the edge of one input drawn from the node to its input
arg_edge_reversed(edge_id, input_id, node_id) == Edge(edge_id, node_id, input_id, "arg")

\* the edge dict appended for one input of a node
arg_edge(edge_id, input_id, node_id) == Edge(edge_id, input_id, node_id, "arg")

RECURSIVE CompileEdges(_, _, _, _)
\* for input_id in input_ids: build.edges.append(...)
CompileEdges(build, input_ids, k, node_id) ==
    IF k > Len(input_ids) THEN build
    ELSE LET Added(n) ==
                 CompileEdges([n.build EXCEPT
                                  !.edges = Append(@, arg_edge(n.id, input_ids[k], node_id))],
                              input_ids, k + 1, node_id)
         IN  Added(next_id(build, "e"))

RECURSIVE build_diagram_expr(_, _), CompileArgs(_, _, _, _, _)

\* for arg in node_expr.args: the atoms of the atom arguments and the node
\* ids of the operator arguments, in argument order
CompileArgs(args, k, build, atom_args, input_ids) ==
    IF k > Len(args)
        THEN [build |-> build, atom_args |-> atom_args, input_ids |-> input_ids]
    ELSE LET Built(r) ==
                 CompileArgs(args, k + 1, r.build, atom_args \o r.atoms,
                             IF r.node_id # "" THEN Append(input_ids, r.node_id)
                             ELSE input_ids)
         IN  Built(build_diagram_expr(args[k], build))

\* build_expr, the inner function of expr_to_diagram (lines 40-85), with the
\* build it works on: node_id = "" is None, atoms the "atoms" of the info dict
build_diagram_expr(node_expr, build) ==
    IF node_expr.kind = "Atom"
        THEN [build |-> build, node_id |-> "", atoms |-> <<node_expr.name>>]
    ELSE LET op == node_expr.op
             AsDofs(a) ==
                 IF op = "P" /\ Len(a.atom_args) = 1 /\ a.input_ids = <<>>
                     THEN <<a.atom_args[1]>>
                 ELSE IF op \in {"S+", "S-"} /\ a.atom_args # <<>> /\ a.input_ids = <<>>
                     THEN a.atom_args
                 ELSE <<>>
             Made(a, n) ==
                 [build |-> CompileEdges(
                                [n.build EXCEPT
                                    !.nodes = Append(@,
                                        [id |-> n.id, op |-> op, inputs |-> a.input_ids,
                                         dof_refs |-> AsDofs(a), irreversible |-> FALSE,
                                         target |-> "",
                                         atom_args |-> IF AsDofs(a) = <<>> THEN a.atom_args
                                                       ELSE <<>>])],
                                a.input_ids, 1, n.id),
                  node_id |-> n.id, atoms |-> <<>>]
             Listed(a) == Made(a, next_id(a.build, "n"))
         IN  Listed(CompileArgs(node_expr.args, 1, build, <<>>, <<>>))

\* _validate_diagram_structure: FALSE is the ValueError
validate_diagram_structure(diagram) ==
    /\ \A k \in DOMAIN diagram.edges :
           /\ diagram.edges[k].from \in NodeIdSet(diagram)
           /\ diagram.edges[k].to \in NodeIdSet(diagram)
    /\ \A i \in DOMAIN diagram.nodes :
           \A r \in DOMAIN diagram.nodes[i].inputs :
               diagram.nodes[i].inputs[r] \in NodeIdSet(diagram)

\* expr_to_diagram(expr, diagram_id, compartment_id): raised = TRUE is the
\* ValueError of the structure check.  The node made for a bare atom
\* carries meta = {"atom_only": True}.
expr_to_diagram(expr, diagram_id, compartment_id) ==
    LET Validated(diagram) ==
            [raised |-> ~validate_diagram_structure(diagram), diagram |-> diagram]
        Finished(build) ==
            Validated([id |-> diagram_id, compartment_id |-> compartment_id,
                       nodes |-> build.nodes, edges |-> build.edges])
        AtomOnly(r, n) ==
            [n.build EXCEPT
                !.nodes = Append(@, [id |-> n.id, op |-> "P", inputs |-> <<>>,
                                     dof_refs |-> <<r.atoms[1]>>, irreversible |-> FALSE,
                                     target |-> "", atom_args |-> <<>>,
                                     atom_only |-> TRUE])]
        Top(r) ==
            IF r.node_id = "" /\ r.atoms # <<>>
                THEN Finished(AtomOnly(r, next_id(r.build, "n")))
            ELSE Finished(r.build)
    IN  Top(build_diagram_expr(expr, DiagramBuild(<<>>, <<>>, 0)))

\* ------------------------------------------------------------------------
\* The documents the operations are run on: diagrams, rewrite rules,
\* constraint lists and a CSI, in the shapes of the data model
\* ------------------------------------------------------------------------

DgChain ==
    [id |-> "d1", compartment_id |-> "",
     nodes |-> <<[id |-> "n1", op |-> "P", inputs |-> <<>>, dof_refs |-> <<<<"F">>>>, irreversible |-> FALSE, target |-> "", atom_args |-> <<>>],
                [id |-> "n2", op |-> "S+", inputs |-> <<"n1">>, dof_refs |-> <<>>, irreversible |-> FALSE, target |-> "", atom_args |-> <<>>],
                [id |-> "n3", op |-> "O", inputs |-> <<"n2">>, dof_refs |-> <<>>, irreversible |-> TRUE, target |-> "", atom_args |-> <<>>],
                [id |-> "n4", op |-> "T", inputs |-> <<"n3">>, dof_refs |-> <<>>, irreversible |-> FALSE, target |-> "k2", atom_args |-> <<>>]>>,
     edges |-> <<[id |-> "e1", from |-> "n1", to |-> "n2", label |-> "arg"],
                [id |-> "e2", from |-> "n2", to |-> "n3", label |-> "arg"],
                [id |-> "e3", from |-> "n3", to |-> "n4", label |-> "arg"]>>]

DgPair ==
    [id |-> "d1", compartment_id |-> "",
     nodes |-> <<[id |-> "n1", op |-> "P", inputs |-> <<>>, dof_refs |-> <<<<"F">>>>, irreversible |-> FALSE, target |-> "", atom_args |-> <<>>],
                [id |-> "n2", op |-> "P", inputs |-> <<>>, dof_refs |-> <<<<"J">>>>, irreversible |-> FALSE, target |-> "", atom_args |-> <<>>],
                [id |-> "n3", op |-> "C", inputs |-> <<"n1", "n2">>, dof_refs |-> <<>>, irreversible |-> FALSE, target |-> "", atom_args |-> <<>>]>>,
     edges |-> <<[id |-> "e1", from |-> "n1", to |-> "n3", label |-> "arg"],
                [id |-> "e2", from |-> "n2", to |-> "n3", label |-> "arg"]>>]

DgDiamond ==
    [id |-> "d1", compartment_id |-> "",
     nodes |-> <<[id |-> "n1", op |-> "P", inputs |-> <<>>, dof_refs |-> <<<<"F">>>>, irreversible |-> FALSE, target |-> "", atom_args |-> <<>>],
                [id |-> "n2", op |-> "S+", inputs |-> <<"n1">>, dof_refs |-> <<>>, irreversible |-> FALSE, target |-> "", atom_args |-> <<>>],
                [id |-> "n3", op |-> "C", inputs |-> <<"n1", "n2">>, dof_refs |-> <<>>, irreversible |-> FALSE, target |-> "", atom_args |-> <<>>]>>,
     edges |-> <<[id |-> "e1", from |-> "n1", to |-> "n2", label |-> "arg"],
                [id |-> "e2", from |-> "n1", to |-> "n3", label |-> "arg"],
                [id |-> "e3", from |-> "n2", to |-> "n3", label |-> "arg"]>>]

DgCycle ==
    [id |-> "d1", compartment_id |-> "",
     nodes |-> <<[id |-> "n1", op |-> "S+", inputs |-> <<"n2">>, dof_refs |-> <<>>, irreversible |-> FALSE, target |-> "", atom_args |-> <<>>],
                [id |-> "n2", op |-> "S+", inputs |-> <<"n1">>, dof_refs |-> <<>>, irreversible |-> FALSE, target |-> "", atom_args |-> <<>>]>>,
     edges |-> <<[id |-> "e1", from |-> "n1", to |-> "n2", label |-> "arg"],
                [id |-> "e2", from |-> "n2", to |-> "n1", label |-> "arg"]>>]

DgCollapse ==
    [id |-> "d1", compartment_id |-> "",
     nodes |-> <<[id |-> "n1", op |-> "P", inputs |-> <<>>, dof_refs |-> <<<<"F">>>>, irreversible |-> FALSE, target |-> "", atom_args |-> <<>>],
                [id |-> "n2", op |-> "O", inputs |-> <<"n1">>, dof_refs |-> <<>>, irreversible |-> FALSE, target |-> "", atom_args |-> <<>>],
                [id |-> "n3", op |-> "T", inputs |-> <<"n2">>, dof_refs |-> <<>>, irreversible |-> FALSE, target |-> "", atom_args |-> <<>>]>>,
     edges |-> <<[id |-> "e1", from |-> "n1", to |-> "n2", label |-> "arg"],
                [id |-> "e2", from |-> "n2", to |-> "n3", label |-> "arg"]>>]

Bystander ==
    [id |-> "d2", compartment_id |-> "",
     nodes |-> <<[id |-> "n1", op |-> "P", inputs |-> <<>>, dof_refs |-> <<<<"J">>>>, irreversible |-> FALSE, target |-> "", atom_args |-> <<>>]>>,
     edges |-> <<>>]

RxCollapse ==
    [id |-> "rc", pattern_expr |-> <<"O", "(", "S", "+", "(", "$", "x", ")", ")">>, replacement_expr |-> <<"T", "(", "$", "x", ")">>,
     pattern |-> <<>>,
     replacement |-> <<>>,
     preconditions |-> <<>>]

RxUnwrap ==
    [id |-> "ru", pattern_expr |-> <<"O", "(", "$", "x", ")">>, replacement_expr |-> <<"$", "x">>,
     pattern |-> <<>>,
     replacement |-> <<>>,
     preconditions |-> <<>>]

RxSwap ==
    [id |-> "rs", pattern_expr |-> <<"C", "(", "$", "x", ",", "$", "y", ")">>, replacement_expr |-> <<"C", "(", "$", "y", ",", " ", "J", ")">>,
     pattern |-> <<>>,
     replacement |-> <<>>,
     preconditions |-> <<"admissible">>]

RxWrap ==
    [id |-> "rw", pattern_expr |-> <<"P", "(", "$", "x", ")">>, replacement_expr |-> <<"T", "(", "$", "x", ")">>,
     pattern |-> <<>>,
     replacement |-> <<>>,
     preconditions |-> <<"no_hard_conflict", "reviewed">>]

RxArity ==
    [id |-> "ra", pattern_expr |-> <<"C", "(", "$", "x", ")">>, replacement_expr |-> <<"$", "x">>,
     pattern |-> <<>>,
     replacement |-> <<>>,
     preconditions |-> <<>>]

RxUnbound ==
    [id |-> "rb", pattern_expr |-> <<"O", "(", "$", "x", ")">>, replacement_expr |-> <<"T", "(", "$", "z", ")">>,
     pattern |-> <<>>,
     replacement |-> <<>>,
     preconditions |-> <<>>]

RgReverse ==
    [id |-> "gr", pattern_expr |-> <<>>, replacement_expr |-> <<>>,
     pattern |-> <<"P", "(", "x", ")", " ", "-", "-", "a", "r", "g", "-", "-", ">", " ", "C", "(", "y", ")">>,
     replacement |-> <<"y", " ", "-", "-", "a", "r", "g", "-", "-", ">", " ", "x">>,
     preconditions |-> <<"admissible">>]

RgWrap ==
    [id |-> "gw", pattern_expr |-> <<>>, replacement_expr |-> <<>>,
     pattern |-> <<"S", "+", "(", "x", ")", " ", "-", "-", "a", "r", "g", "-", "-", ">", " ", "y">>,
     replacement |-> <<"O", "(", "x", ")", " ", "-", "-", "a", "r", "g", "-", "-", ">", " ", "y", ",", " ", "O", "(", "x", ")", " ", "-", "-", "a", "r", "g", "-", "-", ">", " ", "T", "(", "z", ")">>,
     preconditions |-> <<>>]

RgUnbound ==
    [id |-> "gu", pattern_expr |-> <<>>, replacement_expr |-> <<>>,
     pattern |-> <<"x", " ", "-", "-", "a", "r", "g", "-", "-", ">", " ", "y">>,
     replacement |-> <<"x", " ", "-", "-", "a", "r", "g", "-", "-", ">", " ", "z">>,
     preconditions |-> <<>>]

RgSyntax ==
    [id |-> "gs", pattern_expr |-> <<>>, replacement_expr |-> <<>>,
     pattern |-> <<"x", " ", "-", ">", " ", "y">>,
     replacement |-> <<"y", " ", "-", "-", "a", "r", "g", "-", "-", ">", " ", "x">>,
     preconditions |-> <<>>]

KNone ==
    <<>>

KAcyclic ==
    <<[id |-> "k1", type |-> "hard", predicate |-> "no_cycles"], [id |-> "k2", type |-> "soft", predicate |-> "valid_compartment_transitions"]>>

KCollapse ==
    <<[id |-> "k3", type |-> "", predicate |-> "collapse_irreversible"], [id |-> "k4", type |-> "soft", predicate |-> "unregistered"]>>

CsiOpen ==
    [id |-> "c1", allowed_dofs |-> <<<<"F">>, <<"J">>>>, allowed_pairs |-> <<>>]

\* ------------------------------------------------------------------------
\* The state machine
\* ------------------------------------------------------------------------

\* pkg     the package document (the dict the operations read and write)
\* call    the operation called last, with the arguments it was given
\* result  what that operation returned
\* drv     the locals of apply_rewrites_stub while its loop runs
\* heap    the dict and list objects the conflict resolvers work on
VARIABLES pkg, call, result, drv, heap

vars == <<pkg, call, result, drv, heap>>

\* the longest rewrite_rules list of a package, the largest max_iterations
\* passed to apply_rewrites_stub, and the number of driver runs on one package
MaxRules == 2
MaxIter == 1
MaxRuns == 1

Diagrams == {DgChain, DgPair, DgDiamond, DgCycle, DgCollapse}
ConstraintLists == {KNone, KAcyclic, KCollapse}
Rules == {RxCollapse, RxUnwrap, RxSwap, RxWrap, RxArity, RxUnbound,
          RgReverse, RgWrap, RgUnbound, RgSyntax}
PackageRules == {RxCollapse, RxWrap, RxUnbound, RgReverse}
RuleLists == UNION {[1..n -> PackageRules] : n \in 0..MaxRules}

\* what a state document holds under "inu_labels" when it is loaded: no
\* key, an empty map, or a stored map with a forbidden element
LbAbsent == [has |-> FALSE, labels |-> NoLabels]
LbEmpty == [has |-> TRUE, labels |-> NoLabels]
LbForbidden == [has |-> TRUE, labels |-> ("n1" :> "N") @@ ("e1" :> "I")]
StartLabels == {LbAbsent, LbEmpty, LbForbidden}

State(id, diagram_id, csi_id, lb) ==
    [id |-> id, diagram_id |-> diagram_id, csi_id |-> csi_id, compartment_id |-> "",
     has_labels |-> lb.has, inu_labels |-> lb.labels, loop_history |-> <<>>]

\* a package with the diagram d1 under study and its state s1, and a second
\* diagram d2 with its state s2
Package(diagram, constraints, lb, rules) ==
    [dofs |-> <<[id |-> <<"F">>], [id |-> <<"J">>]>>,
     compartments |-> <<[id |-> "k2"]>>,
     csis |-> <<CsiOpen>>,
     diagrams |-> <<diagram, Bystander>>,
     states |-> <<State("s1", "d1", "c1", lb), State("s2", "d2", "c1", LbAbsent)>>,
     constraints |-> constraints,
     rewrite_rules |-> rules]

NoCall == [op |-> ""]
\* no conflict is being resolved: a heap without objects
NoHeap == [lists |-> <<>>, dicts |-> <<>>, details |-> <<>>, diagram |-> EmptyDiagram,
           calls |-> 0]
NoResult == [op |-> ""]

Idle(runs) ==
    [pc |-> "idle", runs |-> runs, to_package |-> FALSE, state_id |-> "",
     diagram_id |-> "", max_iterations |-> 0, state_at |-> 0, diagram_at |-> 0,
     csi_at |-> 0, idx |-> 0, current |-> EmptyDiagram, aliased |-> FALSE,
     applied_any |-> FALSE, iteration |-> 0, messages |-> <<>>, attempts |-> <<>>,
     broke |-> FALSE]

Init ==
    /\ pkg \in {Package(d, k, lb, rules) :
                   d \in Diagrams, k \in ConstraintLists, lb \in StartLabels,
                   rules \in RuleLists}
    /\ call = NoCall
    /\ result = NoResult
    /\ drv = Idle(0)
    /\ heap = NoHeap

\* validate_package(pkg): the report, and the labels it writes into the states
ValidatePackage ==
    /\ drv.pc = "idle"
    /\ LET Returned(r) ==
               /\ result' = [op |-> "validate_package", errors |-> r.errors,
                             warnings |-> r.warnings]
               /\ pkg' = [pkg EXCEPT !.states = r.states]
       IN  Returned(validate_package(pkg))
    /\ call' = [op |-> "validate_package", pkg |-> pkg]
    /\ UNCHANGED <<drv, heap>>

\* apply_rewrites_stub(pkg, state_id, diagram_id, max_iterations) up to its
\* loop (lines 568-586), called directly or, with the default
\* max_iterations, by apply_rewrites_to_package (line 606)
StartRewrites(to_package, state_id, diagram_id, max_iterations) ==
    /\ drv.pc = "idle"
    /\ drv.runs < MaxRuns
    /\ LET s == LookupLast(pkg.states, state_id)
           d == LookupLast(pkg.diagrams, diagram_id)
           c == IF s.ok THEN LookupLast(pkg.csis, pkg.states[s.at].csi_id)
                ELSE [ok |-> FALSE, at |-> 0]
           this == [op |-> IF to_package THEN "apply_rewrites_to_package"
                           ELSE "apply_rewrites_stub",
                    pkg |-> pkg, state_id |-> state_id, diagram_id |-> diagram_id,
                    max_iterations |-> max_iterations]
       IN  /\ call' = this
           /\ IF ~s.ok \/ ~d.ok \/ ~c.ok THEN
                  /\ result' = [op |-> this.op, raised |-> FALSE, applied |-> FALSE,
                                diagram |-> IF d.ok THEN pkg.diagrams[d.at] ELSE EmptyDiagram,
                                messages |-> <<Msg("ERROR", "missing_reference", "")>>,
                                attempts |-> <<>>]
                  /\ drv' = Idle(drv.runs + 1)
              ELSE
                  /\ result' = NoResult
                  /\ drv' = [Idle(drv.runs) EXCEPT
                                !.pc = "loop", !.to_package = to_package,
                                !.state_id = state_id, !.diagram_id = diagram_id,
                                !.max_iterations = max_iterations,
                                !.state_at = s.at, !.diagram_at = d.at, !.csi_at = c.at,
                                !.idx = 1, !.current = pkg.diagrams[d.at], !.aliased = TRUE]
    /\ UNCHANGED <<pkg, heap>>

\* one pass of the loop body, lines 594-600.  The state dict is the
\* package's, so the labels apply_rewrite_stub writes land in the package;
\* the diagram passed to the first call is the package's diagram dict.  An
\* exception of apply_rewrite_stub leaves apply_rewrites_stub (and
\* apply_rewrites_to_package) at once.
RewriteStep ==
    /\ drv.pc = "loop"
    /\ drv.idx <= Len(pkg.rewrite_rules)
    /\ drv.iteration < drv.max_iterations
    /\ LET Returned(r) ==
               /\ pkg' = [pkg EXCEPT
                              !.states[drv.state_at] = r.state,
                              !.diagrams[drv.diagram_at] = IF drv.aliased THEN r.caller ELSE @]
               /\ IF r.raised THEN
                      /\ result' = [op |-> call.op, raised |-> TRUE, applied |-> FALSE,
                                    diagram |-> EmptyDiagram, messages |-> <<>>,
                                    attempts |-> Append(drv.attempts, drv.idx)]
                      /\ drv' = Idle(drv.runs + 1)
                  ELSE
                      /\ drv' = [drv EXCEPT !.messages = @ \o r.messages,
                                            !.current = r.diagram,
                                            !.aliased = FALSE,
                                            !.applied_any = @ \/ r.applied,
                                            !.iteration = @ + 1,
                                            !.idx = @ + 1,
                                            !.attempts = Append(@, drv.idx)]
                      /\ UNCHANGED result
       IN  Returned(apply_rewrite_stub(pkg.constraints, pkg.states[drv.state_at],
                                       drv.current, pkg.csis[drv.csi_at],
                                       pkg.rewrite_rules[drv.idx], TRUE))
    /\ UNCHANGED <<call, heap>>

\* the ceiling reported as an error
RewriteLimitAsError ==
    /\ drv.pc = "loop"
    /\ drv.idx <= Len(pkg.rewrite_rules)
    /\ drv.iteration >= drv.max_iterations
    /\ drv' = [drv EXCEPT !.pc = "break", !.broke = TRUE,
                          !.messages = Append(@, Msg("ERROR", "iteration_limit", ""))]
    /\ UNCHANGED <<pkg, call, result, heap>>

\* lines 588-592: the ceiling is reached with rules left
RewriteLimit ==
    /\ drv.pc = "loop"
    /\ drv.idx <= Len(pkg.rewrite_rules)
    /\ drv.iteration >= drv.max_iterations
    /\ drv' = [drv EXCEPT !.pc = "break", !.broke = TRUE,
                          !.messages = Append(@, Msg("WARNING", "iteration_limit", ""))]
    /\ UNCHANGED <<pkg, call, result, heap>>

\* line 602, and for apply_rewrites_to_package lines 607-627
RewriteReturn ==
    /\ \/ drv.pc = "break"
       \/ drv.pc = "loop" /\ drv.idx > Len(pkg.rewrite_rules)
    /\ result' = [op |-> call.op, raised |-> FALSE, applied |-> drv.applied_any,
                  diagram |-> drv.current, messages |-> drv.messages,
                  attempts |-> drv.attempts]
    /\ pkg' = IF drv.to_package /\ drv.applied_any
                  THEN [pkg EXCEPT
                           !.diagrams = SwapDiagram(pkg.diagrams, drv.diagram_id, drv.current),
                           !.states = Relabel(pkg, drv.diagram_id, drv.current)]
              ELSE pkg
    /\ drv' = Idle(drv.runs + 1)
    /\ UNCHANGED <<call, heap>>

Next ==
    \/ ValidatePackage
    \/ \E state_id \in {"s1", "s9"}, diagram_id \in {"d1", "d9"} :
           \/ \E max_iterations \in 0..MaxIter :
                  StartRewrites(FALSE, state_id, diagram_id, max_iterations)
           \/ StartRewrites(TRUE, state_id, diagram_id, MAX_REWRITE_ITERATIONS)
    \/ RewriteStep
    \/ RewriteLimit
    \/ RewriteReturn

Spec == Init /\ [][Next]_vars

\* a step of a call of the driver that has started
DriverStep == RewriteStep \/ RewriteLimit \/ RewriteReturn

\* the same machine with the loop of apply_rewrites_stub scheduled: a call
\* that has started runs on until it returns.  This is weak fairness of
\* DriverStep, written with the condition under which DriverStep is enabled
\* (a call is under way, drv.pc # "idle"): a behaviour in which a call stays
\* under way takes DriverStep steps again and again.
FairSpec == Spec /\ ([]<>(drv.pc = "idle") \/ []<><<DriverStep>>_vars)

\* ------------------------------------------------------------------------
\* apply_rewrite_stub called on its own, on the diagram d1 and the state s1
\* of a package
\* ------------------------------------------------------------------------

InitStub ==
    /\ pkg \in {Package(d, k, lb, <<>>) :
                   d \in Diagrams, k \in ConstraintLists, lb \in StartLabels}
    /\ call = NoCall
    /\ result = NoResult
    /\ drv = Idle(0)
    /\ heap = NoHeap

ApplyRewriteStub(rewrite_rule, apply_all) ==
    LET Returned(r) ==
            /\ result' = r
            /\ pkg' = [pkg EXCEPT !.states[1] = r.state, !.diagrams[1] = r.caller]
    IN  /\ call' = [op |-> "apply_rewrite_stub", constraints |-> pkg.constraints,
                    state |-> pkg.states[1], diagram |-> pkg.diagrams[1],
                    csi |-> pkg.csis[1], rewrite_rule |-> rewrite_rule,
                    apply_all |-> apply_all]
        /\ Returned(apply_rewrite_stub(pkg.constraints, pkg.states[1], pkg.diagrams[1],
                                       pkg.csis[1], rewrite_rule, apply_all))
        /\ UNCHANGED <<drv, heap>>

NextStub == \E rewrite_rule \in Rules, apply_all \in BOOLEAN :
                ApplyRewriteStub(rewrite_rule, apply_all)

SpecStub == InitStub /\ [][NextStub]_vars

\* ------------------------------------------------------------------------
\* The conflict resolvers called in chains on one heap
\* ------------------------------------------------------------------------

\* the number of resolver calls in one chain
MaxCalls == 2

\* conflict_details dicts: one with every key the resolvers read, one empty
CdFull == [constraint_id |-> "k1", type |-> "soft_violation", conflicting_elements |-> 1,
           scope |-> "compartment", choices |-> 2, reason |-> "budget exceeded"]
CdBare == [constraint_id |-> "", type |-> "", conflicting_elements |-> 0,
           scope |-> "", choices |-> 0, reason |-> ""]
Details == ("full" :> CdFull) @@ ("bare" :> CdBare)

\* the state a chain starts from: a new state, or one that already carries
\* the lists of earlier resolutions
StateUsed == [StateDict EXCEPT !.attenuated_constraints = 3, !.deferred_conflicts = 4,
                               !.partitioned_elements = 5, !.escalated_conflicts = 6]
StartLists == << <<"n1", "n2">>, <<"left", "right">>, <<"k0">>, <<"bare">>, <<"n0">>,
                 <<"full">> >>

ConflictTypes == {"hard_violation", "ambiguous_choice", "scope_overflow",
                  "dof_interference", "temporal_mismatch", "soft_violation", "deadlock"}
Resolvers == {"attenuate", "defer", "partition", "escalate", "bifurcate", "halt"}

InitCRF ==
    /\ pkg = Package(DgChain, KNone, LbAbsent, <<>>)
    /\ call = NoCall
    /\ result = NoResult
    /\ drv = Idle(0)
    /\ heap \in {[lists |-> StartLists, dicts |-> <<s>>, details |-> Details,
                  diagram |-> DgChain, calls |-> 0] : s \in {StateDict, StateUsed}}

\* one of the six resolvers called directly on a state dict of the heap
Resolver(fn, conflict_details, state) ==
    LET Returned(r) ==
            /\ result' = [op |-> fn, resolution |-> r.resolution]
            /\ heap' = [r.heap EXCEPT !.calls = @ + 1]
    IN  /\ heap.calls < MaxCalls
        /\ call' = [op |-> fn, conflict_type |-> "", conflict_details |-> conflict_details,
                    state |-> state, heap |-> heap]
        /\ Returned(CASE fn = "attenuate" -> attenuate(heap, conflict_details, state, heap.diagram)
                      [] fn = "defer" -> defer(heap, conflict_details, state, heap.diagram)
                      [] fn = "partition" -> partition(heap, conflict_details, state, heap.diagram)
                      [] fn = "escalate" -> escalate(heap, conflict_details, state, heap.diagram)
                      [] fn = "bifurcate" -> bifurcate(heap, conflict_details, state, heap.diagram)
                      [] OTHER -> halt(heap, conflict_details, state, heap.diagram))
        /\ UNCHANGED <<pkg, drv>>

ResolveConflict(conflict_type, conflict_details, state) ==
    LET Returned(r) ==
            /\ result' = [op |-> "resolve_conflict", resolution |-> r.resolution]
            /\ heap' = [r.heap EXCEPT !.calls = @ + 1]
    IN  /\ heap.calls < MaxCalls
        /\ call' = [op |-> "resolve_conflict", conflict_type |-> conflict_type,
                    conflict_details |-> conflict_details, state |-> state, heap |-> heap]
        /\ Returned(resolve_conflict(heap, conflict_type, conflict_details, state,
                                     heap.diagram))
        /\ UNCHANGED <<pkg, drv>>

NextCRF ==
    \E conflict_details \in DOMAIN heap.details, state \in DOMAIN heap.dicts :
        \/ \E fn \in Resolvers : Resolver(fn, conflict_details, state)
        \/ \E conflict_type \in ConflictTypes :
               ResolveConflict(conflict_type, conflict_details, state)

SpecCRF == InitCRF /\ [][NextCRF]_vars

\* ------------------------------------------------------------------------
\* Properties of the conflict resolvers
\* ------------------------------------------------------------------------

CrfOps == Resolvers \cup {"resolve_conflict"}

\* what a dict holds under a list-valued key: the items of the list object
Deref(h, at) == [has |-> at # 0, items |-> IF at = 0 THEN <<>> ELSE h.lists[at]]

\* a state dict and a conflict_details dict as a reader sees them, list
\* contents included
DeepState(h, i) ==
    [attenuated_constraints |-> Deref(h, h.dicts[i].attenuated_constraints),
     deferred_conflicts |-> Deref(h, h.dicts[i].deferred_conflicts),
     partitioned_elements |-> Deref(h, h.dicts[i].partitioned_elements),
     escalated_conflicts |-> Deref(h, h.dicts[i].escalated_conflicts),
     bifurcated |-> h.dicts[i].bifurcated,
     bifurcation_choices |-> Deref(h, h.dicts[i].bifurcation_choices),
     halted |-> h.dicts[i].halted,
     halt_reason |-> h.dicts[i].halt_reason]

DeepDetails(h, name) ==
    [constraint_id |-> h.details[name].constraint_id,
     type |-> h.details[name].type,
     conflicting_elements |-> Deref(h, h.details[name].conflicting_elements),
     scope |-> h.details[name].scope,
     choices |-> Deref(h, h.details[name].choices),
     reason |-> h.details[name].reason]

\* C4: a resolver call (one of the six resolvers or resolve_conflict) leaves
\* every state dict that existed before the call, the state argument among
\* them, as it was, list contents included; it leaves every conflict_details
\* dict and the diagram as they were; and the new_state it returns is a dict
\* that did not exist before.  Holding after every call of a chain in which
\* the next call is made on any dict so far (new_state adopted) or on an
\* older one (new_state discarded), no earlier state is altered by a later
\* call.
ResolversLeaveInputsUnchanged ==
    call.op \in CrfOps =>
        /\ \A i \in DOMAIN call.heap.dicts : DeepState(heap, i) = DeepState(call.heap, i)
        /\ \A name \in DOMAIN call.heap.details :
               DeepDetails(heap, name) = DeepDetails(call.heap, name)
        /\ heap.diagram = call.heap.diagram
        /\ result.resolution.new_state \notin DOMAIN call.heap.dicts
        /\ result.resolution.new_state \in DOMAIN heap.dicts

\* a second call of a chain appends to a list that an earlier state holds:
\* the resolver is called on a state whose list for that resolver is not empty
AppendsToHeldList ==
    /\ call.op \in {"attenuate", "defer", "partition", "escalate"}
    /\ call.heap.calls = 1
    /\ LET key(s) == CASE call.op = "attenuate" -> s.attenuated_constraints
                       [] call.op = "defer" -> s.deferred_conflicts
                       [] call.op = "partition" -> s.partitioned_elements
                       [] OTHER -> s.escalated_conflicts
       IN  /\ key(call.heap.dicts[call.state]) # 0
           /\ call.state = Len(call.heap.dicts)
           /\ Len(heap.lists[key(heap.dicts[result.resolution.new_state])])
                  > Len(call.heap.lists[key(call.heap.dicts[call.state])])

\* the action each conflict type is routed to
RoutedAction(conflict_type) ==
    CASE conflict_type = "hard_violation" -> "halt"
      [] conflict_type = "ambiguous_choice" -> "bifurcate"
      [] conflict_type = "scope_overflow" -> "escalate"
      [] conflict_type = "dof_interference" -> "partition"
      [] conflict_type = "temporal_mismatch" -> "defer"
      [] conflict_type = "soft_violation" -> "attenuate"
      [] OTHER -> "halt"

\* C5: resolve_conflict returns the resolution of the one action fixed for
\* the conflict type.  halt (hard_violation and every unlisted type) has
\* success false and sets halted in new_state; every other action has success
\* true; bifurcate records the whole choice set of conflict_details in
\* new_state and in data and changes nothing else of the state, so no branch
\* is picked.
ResolveConflictDispatch ==
    call.op = "resolve_conflict" =>
        LET r == result.resolution
            before == DeepState(call.heap, call.state)
            after == DeepState(heap, result.resolution.new_state)
            choices == Deref(call.heap, call.heap.details[call.conflict_details].choices).items
        IN  /\ r.action = RoutedAction(call.conflict_type)
            /\ r.success = (r.action # "halt")
            /\ r.action = "halt" => after.halted
            /\ r.action # "halt" => after.halted = before.halted
            /\ r.action = "bifurcate" =>
                   /\ after.bifurcated
                   /\ after.bifurcation_choices = [has |-> TRUE, items |-> choices]
                   /\ Deref(heap, r.data.choices) = [has |-> TRUE, items |-> choices]
                   /\ after = [before EXCEPT !.bifurcated = TRUE,
                                             !.bifurcation_choices =
                                                 [has |-> TRUE, items |-> choices]]

\* resolve_conflict has been called with a type outside the table after a
\* call that bifurcated on two choices
UnknownTypeAfterBifurcation ==
    /\ call.op = "resolve_conflict"
    /\ call.conflict_type = "deadlock"
    /\ result.resolution.action = "halt"
    /\ call.heap.dicts[call.state].bifurcated
    /\ Len(call.heap.lists[call.heap.dicts[call.state].bifurcation_choices]) = 2

\* ------------------------------------------------------------------------
\* assign_inu_labels called on its own
\* ------------------------------------------------------------------------

\* the longest constraint list given to assign_inu_labels
MaxConstraints == 2

\* constraint records: hard and soft ones, one that declares no type, one
\* with a predicate that is not registered and one that names no predicate
LabelConstraints ==
    {[id |-> "k1", type |-> "hard", predicate |-> "no_cycles"],
     [id |-> "k2", type |-> "soft", predicate |-> "valid_compartment_transitions"],
     [id |-> "k3", type |-> "", predicate |-> "collapse_irreversible"],
     [id |-> "k4", type |-> "soft", predicate |-> "unregistered"],
     [id |-> "k5", type |-> "hard", predicate |-> "collapse_irreversible"],
     [id |-> "k6", type |-> "soft", predicate |-> "no_cycles"],
     [id |-> "k7", type |-> "hard", predicate |-> ""]}

LabelConstraintLists == UNION {[1..n -> LabelConstraints] : n \in 0..MaxConstraints}

InitLabelling ==
    /\ pkg \in {Package(d, k, LbAbsent, <<>>) : d \in Diagrams, k \in LabelConstraintLists}
    /\ call = NoCall
    /\ result = NoResult
    /\ drv = Idle(0)
    /\ heap = NoHeap

\* assign_inu_labels(diagram, constraints, state, csi) on the diagram d1 and
\* the state s1 of the package
AssignInuLabels ==
    /\ call' = [op |-> "assign_inu_labels", diagram |-> pkg.diagrams[1],
                constraints |-> pkg.constraints, state |-> pkg.states[1],
                csi |-> pkg.csis[1]]
    /\ result' = [op |-> "assign_inu_labels",
                  labels |-> assign_inu_labels(pkg.diagrams[1], pkg.constraints,
                                               pkg.states[1], pkg.csis[1])]
    /\ UNCHANGED <<pkg, drv, heap>>

NextLabelling == AssignInuLabels

SpecLabelling == InitLabelling /\ [][NextLabelling]_vars

\* a constraint whose predicate is registered and fails on the inputs
Fails(c, state, diagram, csi) ==
    /\ c.predicate \in PREDICATES
    /\ ~ApplyPredicate(c.predicate, state, diagram, csi).ok

\* the severity of a constraint record: the declared type, hard when the
\* record declares none (the default of evaluate_constraints)
Severity(c) == IF c.type = "" THEN "hard" ELSE c.type

\* the one label the rule of the specification gives a diagram
GlobalLabelFor(constraints, state, diagram, csi) ==
    IF constraints = <<>> THEN "I"
    ELSE IF \E k \in DOMAIN constraints :
                Severity(constraints[k]) = "hard" /\ Fails(constraints[k], state, diagram, csi)
        THEN "N"
    ELSE IF \E k \in DOMAIN constraints :
                Severity(constraints[k]) = "soft" /\ Fails(constraints[k], state, diagram, csi)
        THEN "U"
    ELSE "I"

\* C6: assign_inu_labels returns a map that gives every node id and every
\* edge id of the diagram one and the same label: I for an empty constraint
\* list, otherwise N if the predicate of some hard constraint fails, else U
\* if the predicate of some soft constraint fails, else I.
LabelsDecidedGlobally ==
    call.op = "assign_inu_labels" =>
        /\ DOMAIN result.labels = NodeIdSet(call.diagram) \cup EdgeIdSet(call.diagram)
        /\ \A id \in DOMAIN result.labels :
               result.labels[id] =
                   GlobalLabelFor(call.constraints, call.state, call.diagram, call.csi)

\* C6 for constraint lists in which every record declares its type: the
\* part of the rule that assign_inu_labels follows
LabelsDecidedGloballyWhenTyped ==
    (call.op = "assign_inu_labels"
         /\ \A k \in DOMAIN call.constraints : call.constraints[k].type # "") =>
        /\ DOMAIN result.labels = NodeIdSet(call.diagram) \cup EdgeIdSet(call.diagram)
        /\ \A id \in DOMAIN result.labels :
               result.labels[id] =
                   GlobalLabelFor(call.constraints, call.state, call.diagram, call.csi)

\* ------------------------------------------------------------------------
\* Properties of rewriting
\* ------------------------------------------------------------------------

DriverOps == {"apply_rewrites_stub", "apply_rewrites_to_package"}

\* the call made last is a call of the driver, and it has returned a result
DriverReturned ==
    /\ call.op \in DriverOps
    /\ result.op = call.op
    /\ ~result.raised

\* the call made last is a call of apply_rewrite_stub that returned a result
StubReturned == call.op = "apply_rewrite_stub" /\ ~result.raised

\* the diagram the driver was called on
StartDiagram == call.pkg.diagrams[LookupLast(call.pkg.diagrams, call.diagram_id).at]

RECURSIVE ReachableFrom(_, _, _)
\* the nodes reached from the set ids along at most n more edges
ReachableFrom(diagram, ids, n) ==
    LET step == ids \cup {diagram.edges[k].to :
                             k \in {j \in DOMAIN diagram.edges : diagram.edges[j].from \in ids}}
    IN  IF n = 0 \/ step = ids THEN ids ELSE ReachableFrom(diagram, step, n - 1)

\* some edge of the diagram lies on a directed cycle
DirectedCycle(diagram) ==
    \E k \in DOMAIN diagram.edges :
        diagram.edges[k].from
            \in ReachableFrom(diagram, {diagram.edges[k].to}, Len(diagram.edges))

\* C1: a diagram returned with applied = true, by apply_rewrite_stub for one
\* rule or by the driver for the rules of the package in sequence, has no
\* directed cycle if the diagram the call started from had none; for both
\* rule forms and both values of apply_all.
RewritingKeepsAcyclic ==
    /\ (StubReturned /\ result.applied /\ ~DirectedCycle(call.diagram))
           => ~DirectedCycle(result.diagram)
    /\ (DriverReturned /\ result.applied /\ ~DirectedCycle(StartDiagram))
           => ~DirectedCycle(result.diagram)

\* the message of a rejection is among the messages returned
Rejected(code) == \E k \in DOMAIN result.messages : result.messages[k].code = code

\* C2: when apply_rewrite_stub returns applied = false the diagram it returns
\* is the diagram D it was given and the caller's dict D is as it was; and it
\* returns applied = false when authorize_rewrite does not authorize the
\* rule, when the rewritten diagram would hold a cycle, when the rule has no
\* match and when a pattern of the rule does not parse.
RejectedRewriteIsNoOp ==
    call.op = "apply_rewrite_stub" =>
        /\ (~result.raised /\ ~result.applied) =>
               /\ result.diagram = call.diagram
               /\ result.caller = call.diagram
               /\ pkg.diagrams[1] = call.diagram
        /\ ~authorize_rewrite(call.constraints, call.state, call.diagram, call.csi,
                              call.rewrite_rule).authorized
               => (~result.raised /\ ~result.applied)
        /\ (~result.raised /\ (Rejected("would_introduce_cycle") \/ Rejected("not_applicable")
                                   \/ Rejected("parse_error")))
               => ~result.applied

\* an expression-form rule was rejected because the rewritten diagram would
\* hold a cycle, after build_expr and the rewiring had run
RejectedForCycle ==
    /\ StubReturned
    /\ HasExprForm(call.rewrite_rule)
    /\ ~result.applied
    /\ Rejected("would_introduce_cycle")
    /\ call.diagram.edges # <<>>

\* every edge endpoint and every node input names a node of the diagram
Resolves(diagram) ==
    /\ \A k \in DOMAIN diagram.edges :
           diagram.edges[k].from \in NodeIdSet(diagram) /\ diagram.edges[k].to \in NodeIdSet(diagram)
    /\ \A i \in DOMAIN diagram.nodes :
           \A r \in DOMAIN diagram.nodes[i].inputs :
               diagram.nodes[i].inputs[r] \in NodeIdSet(diagram)

\* C3: a diagram returned by an applied rewrite resolves all its references
\* if the diagram the call started from did; and once every diagram of the
\* package did so at the start, validate_package reports no
\* missing-reference error, also after apply_rewrites_to_package.
ReferencesSurviveRewriting ==
    /\ (StubReturned /\ result.applied /\ Resolves(call.diagram)) => Resolves(result.diagram)
    /\ (DriverReturned /\ result.applied /\ Resolves(StartDiagram)) => Resolves(result.diagram)
    /\ call.op = "validate_package" =>
           \A k \in DOMAIN result.errors : result.errors[k].category # "missing_reference"

\* before any rewrite every diagram of a package resolves its references
StartsResolved == drv.runs = 0 /\ drv.pc = "idle" => \A d \in DOMAIN pkg.diagrams : Resolves(pkg.diagrams[d])

\* the matches of a rule in a diagram, each as the set of ids it consumes:
\* the nodes matched from one root for an expression-form rule, the edges
\* matched for an edge-pattern rule (the first match that avoids each set of
\* edges)
MatchesOf(diagram, rule) ==
    IF HasExprForm(rule) THEN
        {match_expr(parse_expression(rule.pattern_expr).expr, id, diagram,
                    NoBindings, {}, {}).matched :
            id \in {r \in NodeIdSet(diagram) :
                       match_expr(parse_expression(rule.pattern_expr).expr, r, diagram,
                                  NoBindings, {}, {}).ok}}
    ELSE {find_first_match(diagram, parse_rule_pattern(rule.pattern), avoid).edge_ids :
            avoid \in {f \in SUBSET EdgeIdSet(diagram) :
                          find_first_match(diagram, parse_rule_pattern(rule.pattern), f).ok}}

\* C10: a call of apply_rewrite_stub that applies its rule carries out the
\* replacement for matches of the rule in the diagram it was given: for
\* exactly one when apply_all is false; when apply_all is true for at most
\* MAX_MATCHES matches no two of which consume the same element, and such
\* that every match of the rule in the diagram shares an element with one of
\* them.  The same for expression-form and for edge-pattern rules.
AppliesToRequestedMatches ==
    (StubReturned /\ result.applied) =>
        /\ Range(result.applied_to) \subseteq MatchesOf(call.diagram, call.rewrite_rule)
        /\ ~call.apply_all => Len(result.applied_to) = 1
        /\ call.apply_all =>
               /\ Len(result.applied_to) <= MAX_MATCHES
               /\ \A i, j \in DOMAIN result.applied_to :
                      i # j => result.applied_to[i] \cap result.applied_to[j] = {}
               /\ \A m \in MatchesOf(call.diagram, call.rewrite_rule) :
                      \E i \in DOMAIN result.applied_to : m \cap result.applied_to[i] # {}

\* C10 for edge-pattern rules alone, the form whose matches are applied in a
\* loop
EdgeRulesApplyToRequestedMatches ==
    (StubReturned /\ result.applied /\ ~HasExprForm(call.rewrite_rule)) =>
        /\ Range(result.applied_to) \subseteq MatchesOf(call.diagram, call.rewrite_rule)
        /\ ~call.apply_all => Len(result.applied_to) = 1
        /\ call.apply_all =>
               /\ Len(result.applied_to) <= MAX_MATCHES
               /\ \A i, j \in DOMAIN result.applied_to :
                      i # j => result.applied_to[i] \cap result.applied_to[j] = {}
               /\ \A m \in MatchesOf(call.diagram, call.rewrite_rule) :
                      \E i \in DOMAIN result.applied_to : m \cap result.applied_to[i] # {}

INU == {"I", "N", "U"}

\* the state holds a label of INU for every node id and edge id of the diagram
LabelsTotal(state, diagram) ==
    /\ state.has_labels
    /\ NodeIdSet(diagram) \cup EdgeIdSet(diagram) \subseteq DOMAIN state.inu_labels
    /\ \A id \in NodeIdSet(diagram) \cup EdgeIdSet(diagram) : state.inu_labels[id] \in INU

\* every state of the package that names one of the diagram ids, and whose
\* diagram and CSI resolve, holds a total label map for the diagram the
\* package now holds under its diagram_id
EveryStateLabelled(diagram_ids) ==
    \A k \in DOMAIN pkg.states :
        (pkg.states[k].diagram_id \in diagram_ids
             /\ LookupLast(pkg.diagrams, pkg.states[k].diagram_id).ok
             /\ LookupLast(pkg.csis, pkg.states[k].csi_id).ok)
            => LabelsTotal(pkg.states[k],
                           pkg.diagrams[LookupLast(pkg.diagrams, pkg.states[k].diagram_id).at])

\* the states a call has evaluated: all of them for validate_package, those
\* of the rewritten diagram for apply_rewrites_to_package
Evaluated == IF call.op = "validate_package" THEN {"d1", "d2"} ELSE {call.diagram_id}

\* C7: after validate_package has run, and after apply_rewrites_to_package
\* has applied a rewrite, every state whose diagram and CSI resolve holds a
\* label of {I, N, U} for every node id and edge id of its diagram, whether
\* the state document came without labels, with an empty map or with a
\* stored partial map.
LabelMapTotalOnceEvaluated ==
    (\/ call.op = "validate_package"
     \/ (DriverReturned /\ call.op = "apply_rewrites_to_package" /\ result.applied))
        => EveryStateLabelled(Evaluated)

\* C7 for states that come without an "inu_labels" key
LabelMapTotalWhenAbsentAtStart ==
    ((\/ call.op = "validate_package"
      \/ (DriverReturned /\ call.op = "apply_rewrites_to_package" /\ result.applied))
         /\ ~call.pkg.states[1].has_labels)
        => EveryStateLabelled(Evaluated)

\* what authorization asks for: no hard constraint fails on the diagram,
\* and no label of the state is N when the rule carries "admissible"; the
\* state gets its labels from the diagram first if it holds none
Authorizes(constraints, state, diagram, csi, rule) ==
    LET Labelled(st) ==
            /\ \A k \in DOMAIN constraints :
                   ~(Severity(constraints[k]) = "hard" /\ Fails(constraints[k], st, diagram, csi))
            /\ Contains(rule.preconditions, "admissible") =>
                   \A id \in DOMAIN LabelsOf(st) : LabelsOf(st)[id] # "N"
    IN  Labelled(WithLabels(state, diagram, constraints, csi))

\* one rule of the driver's loop has been attempted and the loop goes on
RuleAttempted == drv.pc = "loop" /\ drv'.pc = "loop" /\ drv'.iteration = drv.iteration + 1

\* the messages the step added
MessagesAdded == SubSeq(drv'.messages, Len(drv.messages) + 1, Len(drv'.messages))

\* C8: a step of the driver's loop changes the current diagram only if the
\* rule is authorized on the current diagram and state; an unauthorized rule
\* leaves the diagram as it is, the loop moves to the next rule, so the rule
\* is not tried again, and the step reports it with a warning and with no
\* error.
UnauthorizedRuleSkippedWithWarning ==
    [][RuleAttempted =>
           LET Gate(ok, added) ==
                   /\ drv'.current # drv.current => ok
                   /\ ~ok => /\ drv'.current = drv.current
                             /\ drv'.idx = drv.idx + 1
                             /\ drv'.attempts = Append(drv.attempts, drv.idx)
                             /\ \E k \in DOMAIN added : added[k].level = "WARNING"
                             /\ \A k \in DOMAIN added : added[k].level # "ERROR"
           IN  Gate(Authorizes(pkg.constraints, pkg.states[drv.state_at], drv.current,
                               pkg.csis[drv.csi_at], pkg.rewrite_rules[drv.idx]),
                    MessagesAdded)]_vars

\* C8 without the level of the message: the gate itself
UnauthorizedRuleSkipped ==
    [][RuleAttempted =>
           LET Gate(ok, added) ==
                   /\ drv'.current # drv.current => ok
                   /\ ~ok => /\ drv'.current = drv.current
                             /\ drv'.idx = drv.idx + 1
                             /\ drv'.attempts = Append(drv.attempts, drv.idx)
                             /\ added # <<>>
           IN  Gate(Authorizes(pkg.constraints, pkg.states[drv.state_at], drv.current,
                               pkg.csis[drv.csi_at], pkg.rewrite_rules[drv.idx]),
                    MessagesAdded)]_vars

RECURSIVE DiagramAfter(_, _, _, _, _, _, _)
\* the diagram after the rules k..n have been attempted in order, each on
\* the diagram and the state the one before left
DiagramAfter(constraints, state, diagram, csi, rules, k, n) ==
    IF k > n THEN diagram
    ELSE LET Then(r) == DiagramAfter(constraints, r.state, r.diagram, csi, rules, k + 1, n)
         IN  Then(apply_rewrite_stub(constraints, state, diagram, csi, rules[k], TRUE))

InOrder(attempts) == attempts = [i \in 1..Len(attempts) |-> i]

\* the last call of the driver was stopped by the ceiling: it resolved its
\* state, diagram and CSI, returned, and the package holds more rules than
\* max_iterations
StoppedByCeiling ==
    /\ DriverReturned
    /\ LookupLast(call.pkg.states, call.state_id).ok
    /\ LookupLast(call.pkg.diagrams, call.diagram_id).ok
    /\ Len(call.pkg.rewrite_rules) > call.max_iterations

\* what holds of the driver at every moment: the rules attempted so far are
\* the first ones of the list, each once and in order, no more than
\* max_iterations of them; a call stopped by the ceiling returns a WARNING
\* as its last message, no ERROR about the limit, and the diagram that the
\* rules attempted have produced
DriverBounded ==
    /\ drv.pc # "idle" =>
           /\ InOrder(drv.attempts)
           /\ Len(drv.attempts) = drv.iteration
           /\ drv.iteration <= drv.max_iterations
           /\ Len(drv.attempts) <= Len(pkg.rewrite_rules)
    /\ (call.op \in DriverOps /\ result.op = call.op) =>
           /\ InOrder(result.attempts)
           /\ Len(result.attempts) <= call.max_iterations
           /\ Len(result.attempts) <= Len(call.pkg.rewrite_rules)
    /\ StoppedByCeiling =>
           /\ Len(result.attempts) = call.max_iterations
           /\ result.messages # <<>>
           /\ result.messages[Len(result.messages)] = Msg("WARNING", "iteration_limit", "")
           /\ \A k \in DOMAIN result.messages :
                  result.messages[k].code = "iteration_limit"
                      => result.messages[k].level = "WARNING"
           /\ result.diagram =
                  DiagramAfter(call.pkg.constraints,
                               call.pkg.states[LookupLast(call.pkg.states, call.state_id).at],
                               StartDiagram,
                               call.pkg.csis[1], call.pkg.rewrite_rules, 1,
                               call.max_iterations)

\* every call of the driver that has started returns
DriverReturns == (drv.pc # "idle") ~> (drv.pc = "idle")

\* C9: apply_rewrites_stub attempts the rules of the package in list order,
\* each at most once and no more than max_iterations of them; stopped by the
\* ceiling it returns a WARNING, not an ERROR, with the diagram produced so
\* far; and every call that has started returns.
DriverTerminatesInOrder == []DriverBounded /\ DriverReturns

\* a call with max_iterations = 1 on a package of two rules was stopped by
\* the ceiling after its one rule had been applied
CeilingStoppedAfterOneRule ==
    /\ StoppedByCeiling
    /\ call.max_iterations = 1
    /\ Len(call.pkg.rewrite_rules) = 2
    /\ result.applied
    /\ result.attempts = <<1>>

\* ------------------------------------------------------------------------
\* The stability functions called on a package
\* ------------------------------------------------------------------------

\* a diagram without nodes
DgBare == [id |-> "d1", compartment_id |-> "", nodes |-> <<>>, edges |-> <<>>]

\* a rule that replaces its pattern by itself, and one whose replacement is
\* the pattern written with other spacing
RxSame ==
    [id |-> "ri", pattern_expr |-> <<"P", "(", "$", "x", ")">>, replacement_expr |-> <<"P", "(", "$", "x", ")">>,
     pattern |-> <<>>,
     replacement |-> <<>>,
     preconditions |-> <<>>]

RxSpaced ==
    [id |-> "rp", pattern_expr |-> <<"P", "(", "$", "x", ")">>, replacement_expr |-> <<"P", "(", " ", "$", "x", ")">>,
     pattern |-> <<>>,
     replacement |-> <<>>,
     preconditions |-> <<"admissible">>]

StabilityDiagrams == {DgChain, DgPair, DgCycle, DgCollapse, DgBare}
StabilityConstraints == {KNone, KAcyclic}
StabilityRules == {RxCollapse, RxSwap, RxSame, RxSpaced}
StabilityRuleLists == UNION {[1..n -> StabilityRules] : n \in 0..MaxRules}

\* stored labels that call an element admissible which the diagram no
\* longer has
LbStale == [has |-> TRUE, labels |-> ("n1" :> "I") @@ ("e9" :> "I")]
StabilityLabels == {LbAbsent, LbForbidden, LbStale}

\* a package as it is loaded: no function has been called on it yet
Loaded == call = NoCall

\* loop_history: snapshots {"inu_labels": {...}}
Snapshot(labels) == [inu_labels |-> labels]
SnapSettled == Snapshot(("n1" :> "I") @@ ("n2" :> "I") @@ ("e1" :> "I"))
SnapMoved == Snapshot(("n1" :> "I") @@ ("n2" :> "I") @@ ("e1" :> "U"))
Histories ==
    {<<>>, <<SnapSettled>>, <<SnapMoved, SnapSettled, SnapSettled>>,
     <<SnapSettled, SnapMoved>>, <<Snapshot(NoLabels), Snapshot(NoLabels)>>}

\* tolerances: 0, the default 1e-6, 1/3 and 1/2
Tolerance(num, den) == [num |-> num, den |-> den]
Tolerances == {Tolerance(0, 1), Tolerance(1, 1000000), Tolerance(1, 3), Tolerance(1, 2)}

\* the (state_id, diagram_id) pairs the functions are called with: s2 names
\* a CSI the package does not hold, s9 and d9 are not in the package
CalledWith == {<<"s1", "d1">>, <<"s2", "d1">>, <<"s9", "d1">>, <<"s1", "d9">>}

InitStability ==
    /\ pkg \in {[Package(d, k, lb, rules) EXCEPT !.states[1].loop_history = h,
                                                 !.states[2].csi_id = "c9"] :
                   d \in StabilityDiagrams, k \in StabilityConstraints,
                   lb \in StabilityLabels, rules \in StabilityRuleLists, h \in Histories}
    /\ call = NoCall
    /\ result = NoResult
    /\ drv = Idle(0)
    /\ heap = NoHeap

\* the package after a call that was given the state dict of state_id
StateWritten(state_id, state) ==
    LET Written(s) == IF s.ok THEN [pkg EXCEPT !.states[s.at] = state] ELSE pkg
    IN  Written(LookupLast(pkg.states, state_id))

CheckNoAdmissibleRewrites(state_id, diagram_id) ==
    LET Returned(r) ==
            /\ result' = [op |-> "check_no_admissible_rewrites", ok |-> r.ok,
                          msg |-> r.msg, ref |-> r.ref]
            /\ pkg' = StateWritten(state_id, r.state)
    IN  /\ Loaded
        /\ call' = [op |-> "check_no_admissible_rewrites", pkg |-> pkg,
                    state_id |-> state_id, diagram_id |-> diagram_id]
        /\ Returned(check_no_admissible_rewrites(pkg, state_id, diagram_id))
        /\ UNCHANGED <<drv, heap>>

\* the three checks that take documents are called on the diagram d1, the
\* state s1 and the CSI c1 of the package
CheckInvariantUnderTransport ==
    LET Returned(r) ==
            result' = [op |-> "check_invariant_under_transport", ok |-> r.ok,
                       msg |-> r.msg, ref |-> r.ref]
    IN  /\ Loaded
        /\ call' = [op |-> "check_invariant_under_transport", pkg |-> pkg]
        /\ Returned(check_invariant_under_transport(pkg.diagrams[1], pkg.states[1],
                                                    pkg.csis[1], pkg.constraints))
        /\ UNCHANGED <<pkg, drv, heap>>

CheckOnlyIdentityRewrites ==
    LET Returned(r) ==
            result' = [op |-> "check_only_identity_rewrites", ok |-> r.ok,
                       msg |-> r.msg, ref |-> r.ref]
    IN  /\ Loaded
        /\ call' = [op |-> "check_only_identity_rewrites", pkg |-> pkg]
        /\ Returned(check_only_identity_rewrites(pkg.rewrite_rules, pkg.diagrams[1]))
        /\ UNCHANGED <<pkg, drv, heap>>

CheckLoopConvergence(tolerance) ==
    LET Returned(r) ==
            result' = [op |-> "check_loop_convergence", ok |-> r.ok,
                       msg |-> r.msg, ref |-> r.ref]
    IN  /\ Loaded
        /\ call' = [op |-> "check_loop_convergence", pkg |-> pkg,
                    tolerance |-> tolerance]
        /\ Returned(check_loop_convergence(pkg.states[1], tolerance))
        /\ UNCHANGED <<pkg, drv, heap>>

IsStructurallyStable(state_id, diagram_id, tolerance, require_all) ==
    LET Returned(r) ==
            /\ result' = [op |-> "is_structurally_stable", is_stable |-> r.is_stable,
                          satisfied |-> r.satisfied, message |-> r.message]
            /\ pkg' = StateWritten(state_id, r.state)
    IN  /\ Loaded
        /\ call' = [op |-> "is_structurally_stable", pkg |-> pkg,
                    state_id |-> state_id, diagram_id |-> diagram_id,
                    tolerance |-> tolerance, require_all |-> require_all]
        /\ Returned(is_structurally_stable(pkg, state_id, diagram_id, tolerance,
                                           require_all))
        /\ UNCHANGED <<drv, heap>>

\* sid_stability_cli.py calls compute_stability_metrics on the package it
\* has just passed to is_structurally_stable, with the same ids
ComputeStabilityMetrics(state_id, diagram_id) ==
    /\ \/ Loaded
       \/ /\ call.op = "is_structurally_stable"
          /\ call.state_id = state_id
          /\ call.diagram_id = diagram_id
    /\ call' = [op |-> "compute_stability_metrics", pkg |-> pkg,
                state_id |-> state_id, diagram_id |-> diagram_id]
    /\ result' = [op |-> "compute_stability_metrics",
                  metrics |-> compute_stability_metrics(pkg, state_id, diagram_id)]
    /\ UNCHANGED <<pkg, drv, heap>>

NextStability ==
    \/ \E at \in CalledWith : CheckNoAdmissibleRewrites(at[1], at[2])
    \/ CheckInvariantUnderTransport
    \/ CheckOnlyIdentityRewrites
    \/ \E tolerance \in Tolerances : CheckLoopConvergence(tolerance)
    \/ \E at \in CalledWith, tolerance \in {Tolerance(1, 1000000), Tolerance(1, 2)},
          require_all \in BOOLEAN :
           IsStructurallyStable(at[1], at[2], tolerance, require_all)
    \/ \E at \in CalledWith : ComputeStabilityMetrics(at[1], at[2])

SpecStability == InitStability /\ [][NextStability]_vars

\* ------------------------------------------------------------------------
\* Structural stability (spec section 4.6)
\* ------------------------------------------------------------------------

\* the documents a call with ids was about: at.state.ok, at.diagram.ok and
\* at.csi.ok say which of them the package holds
CalledOn == References(call.pkg, call.state_id, call.diagram_id)
Resolved(at) == at.state.ok /\ at.diagram.ok /\ at.csi.ok

\* a rule has a match in a diagram: its pattern parses and matches from
\* some node (expression form) or on some edges (edge form)
HasMatch(diagram, rule) ==
    IF HasExprForm(rule) THEN
        /\ parse_expression(rule.pattern_expr).ok
        /\ \E id \in NodeIdSet(diagram) :
               match_expr(parse_expression(rule.pattern_expr).expr, id, diagram,
                          NoBindings, {}, {}).ok
    ELSE /\ rule.pattern # <<>>
         /\ rule.replacement # <<>>
         /\ parse_rule_pattern(rule.pattern).ok
         /\ MatchesOf(diagram, rule) # {}

\* condition 1: no rule of the package is authorized and has a match
NoAdmissibleRewrite(rules, constraints, state, diagram, csi) ==
    ~\E k \in DOMAIN rules :
        /\ Authorizes(constraints, state, diagram, csi, rules[k])
        /\ HasMatch(diagram, rules[k])

\* condition 2: with the labels computed afresh every T node is I and every
\* element the stored labels call I is I
RegionInvariant(constraints, state, diagram, csi) ==
    LET IsAdmissible(computed, id) == id \in DOMAIN computed /\ computed[id] = "I"
        Kept(computed) ==
            /\ \A i \in DOMAIN diagram.nodes :
                   diagram.nodes[i].op = "T" => IsAdmissible(computed, diagram.nodes[i].id)
            /\ \A key \in DOMAIN LabelsOf(state) :
                   LabelsOf(state)[key] = "I" => IsAdmissible(computed, key)
    IN  Kept(assign_inu_labels(diagram, constraints, state, csi))

\* a rule whose pattern and replacement are the same structure: the same
\* expression, or the same edge patterns; texts that do not parse are
\* compared as texts
IdentityRewrite(rule) ==
    LET SameExpr(p, r) ==
            IF p.ok /\ r.ok THEN p.expr = r.expr
            ELSE rule.pattern_expr = rule.replacement_expr
        SameEdges(p, r) ==
            IF p.ok /\ r.ok THEN p.edges = r.edges
            ELSE rule.pattern = rule.replacement
    IN  IF HasExprForm(rule)
            THEN SameExpr(parse_expression(rule.pattern_expr),
                          parse_expression(rule.replacement_expr))
        ELSE SameEdges(parse_rule_pattern(rule.pattern),
                       parse_rule_pattern(rule.replacement))

\* condition 3: every authorized rule is an identity rewrite
OnlyIdentityAuthorized(rules, constraints, state, diagram, csi) ==
    \A k \in DOMAIN rules :
        Authorizes(constraints, state, diagram, csi, rules[k]) => IdentityRewrite(rules[k])

\* condition 4: the last two snapshots differ in no label, or in a share of
\* the elements of either that is below the tolerance
Converged(history, tolerance) ==
    LET n == Len(history)
        Share(changed, all) ==
            \/ changed = 0
            \/ changed * tolerance.den < tolerance.num * all
    IN  /\ n >= 2
        /\ Share(Cardinality(Changed(history[n - 1].inu_labels, history[n].inu_labels)),
                 Cardinality(DOMAIN history[n - 1].inu_labels
                             \cup DOMAIN history[n].inu_labels))

\* which of the four conditions hold for a state, a diagram and a CSI of a
\* package
ConditionsHeld(p, state, diagram, csi, tolerance) ==
    {c \in 1..4 :
        \/ c = 1 /\ NoAdmissibleRewrite(p.rewrite_rules, p.constraints, state, diagram, csi)
        \/ c = 2 /\ RegionInvariant(p.constraints, state, diagram, csi)
        \/ c = 3 /\ OnlyIdentityAuthorized(p.rewrite_rules, p.constraints, state,
                                            diagram, csi)
        \/ c = 4 /\ Converged(state.loop_history, tolerance)}

\* the condition a line of the satisfied list stands for
ConditionOf(msg) ==
    CASE msg = "no_admissible_rewrites" -> 1
      [] msg \in {"no_transport", "invariant_under_transport"} -> 2
      [] msg = "only_identity_rewrites" -> 3
      [] msg \in {"fully_converged", "converged"} -> 4

\* C11: is_structurally_stable reports stable iff at least one of the four
\* termination conditions holds, and with require_all iff all four hold;
\* its satisfied list names exactly the conditions that hold; when the
\* state, the diagram or the CSI is missing it reports not stable with an
\* empty list.
StableIffConditionsHold ==
    LET Reported(held) ==
            /\ {ConditionOf(result.satisfied[i]) : i \in DOMAIN result.satisfied} = held
            /\ Len(result.satisfied) = Cardinality(held)
            /\ result.is_stable <=> IF call.require_all THEN held = 1..4 ELSE held # {}
        About(at) ==
            IF ~Resolved(at) THEN ~result.is_stable /\ result.satisfied = <<>>
            ELSE Reported(ConditionsHeld(call.pkg, call.pkg.states[at.state.at],
                                         call.pkg.diagrams[at.diagram.at],
                                         call.pkg.csis[at.csi.at], call.tolerance))
    IN  result.op = "is_structurally_stable" => About(CalledOn)

\* What does hold: the verdict and the list follow the four check
\* functions as they answer on the documents of the call.
StableIffChecksPass ==
    LET Passed(state, diagram, csi) ==
            {c \in 1..4 :
                \/ c = 1 /\ check_no_admissible_rewrites(call.pkg, call.state_id,
                                                         call.diagram_id).ok
                \/ c = 2 /\ check_invariant_under_transport(diagram, state, csi,
                                                            call.pkg.constraints).ok
                \/ c = 3 /\ check_only_identity_rewrites(call.pkg.rewrite_rules, diagram).ok
                \/ c = 4 /\ check_loop_convergence(state, call.tolerance).ok}
        Reported(held) ==
            /\ {ConditionOf(result.satisfied[i]) : i \in DOMAIN result.satisfied} = held
            /\ Len(result.satisfied) = Cardinality(held)
            /\ result.is_stable <=> IF call.require_all THEN held = 1..4 ELSE held # {}
        About(at) ==
            IF ~Resolved(at) THEN ~result.is_stable /\ result.satisfied = <<>>
            ELSE Reported(Passed(call.pkg.states[at.state.at],
                                 call.pkg.diagrams[at.diagram.at],
                                 call.pkg.csis[at.csi.at]))
    IN  result.op = "is_structurally_stable" => About(CalledOn)

\* C12: check_no_admissible_rewrites answers true iff no rule of the
\* package is both authorized and applicable (has a match) on the diagram,
\* and the diagrams of the package are the same after the call.
NoAdmissibleRewritesIsProbe ==
    LET About(at) ==
            /\ Resolved(at) =>
                   (result.ok <=>
                       NoAdmissibleRewrite(call.pkg.rewrite_rules, call.pkg.constraints,
                                           call.pkg.states[at.state.at],
                                           call.pkg.diagrams[at.diagram.at],
                                           call.pkg.csis[at.csi.at]))
            /\ pkg.diagrams = call.pkg.diagrams
    IN  result.op = "check_no_admissible_rewrites" => About(CalledOn)

\* a rule was found authorized and applicable, the call wrote the labels of
\* the state, and an earlier rule of the list was passed over
AdmissibleRuleFound ==
    /\ result.op = "check_no_admissible_rewrites"
    /\ ~result.ok
    /\ result.msg = "still_admissible"
    /\ pkg.states # call.pkg.states
    /\ call.pkg.rewrite_rules[1].id # result.ref

\* C13: check_invariant_under_transport answers true iff, under the labels
\* computed afresh, every T node is labeled I and every element the stored
\* labels call I is still I; elements that are newly I do not break it.
TransportInvarianceIffRegionKept ==
    result.op = "check_invariant_under_transport" =>
        (result.ok <=> RegionInvariant(call.pkg.constraints, call.pkg.states[1],
                                       call.pkg.diagrams[1], call.pkg.csis[1]))

\* C14: check_only_identity_rewrites answers true iff every rule that is
\* authorized for the state and the diagram is an identity rewrite; rules
\* that are not authorized do not count.
OnlyIdentityIffAuthorizedAreIdentity ==
    result.op = "check_only_identity_rewrites" =>
        (result.ok <=> OnlyIdentityAuthorized(call.pkg.rewrite_rules, call.pkg.constraints,
                                              call.pkg.states[1], call.pkg.diagrams[1],
                                              call.pkg.csis[1]))

\* C15: check_loop_convergence reads the last two snapshots only: fewer
\* than two is not converged, no changed label is converged for every
\* tolerance from 0 up, otherwise it is converged iff changed / |elements
\* of either snapshot| is strictly below the tolerance.
ConvergenceOnLastTwoSnapshots ==
    result.op = "check_loop_convergence" =>
        (result.ok <=> Converged(call.pkg.states[1].loop_history, call.tolerance))

\* one label in three changed and the tolerance is exactly that share
ChangeShareAtTolerance ==
    /\ result.op = "check_loop_convergence"
    /\ result.msg = "not_converged"
    /\ call.tolerance = Tolerance(1, 3)
    /\ Len(call.pkg.states[1].loop_history) = 2

\* C16: every ratio of compute_stability_metrics (admissible ratio,
\* collapse ratio, coupling ratio, transport fidelity, loop gain) is None
\* whenever its denominator is zero: no labels, no nodes, no T nodes, no
\* elements in the last two snapshots.
RatiosUndefinedOnZeroDenominator ==
    LET About(m, state, diagram) ==
            /\ DOMAIN LabelsOf(state) = {} => m.admissible_ratio.none
            /\ diagram.nodes = <<>> => m.collapse_ratio.none /\ m.gradient_coherence.none
            /\ CountOp(diagram.nodes, "T") = 0 => m.transport_fidelity.none
            /\ (\A i \in DOMAIN state.loop_history :
                    i >= Len(state.loop_history) - 1 =>
                        DOMAIN state.loop_history[i].inu_labels = {})
                    => m.loop_gain.none
        Given(at) ==
            at.state.ok /\ at.diagram.ok =>
                About(result.metrics, call.pkg.states[at.state.at],
                      call.pkg.diagrams[at.diagram.at])
    IN  result.op = "compute_stability_metrics" /\ ~result.metrics.empty => Given(CalledOn)

\* ------------------------------------------------------------------------
\* Expressions: parsed, compiled into a diagram, and the diagram rewritten
\* ------------------------------------------------------------------------

\* the longest text written character by character, the longest argument
\* list of an expression written from a tree, and the longest sequence of
\* rewrites applied to one diagram
MaxLen == 4
MaxArgs == 3
MaxRewrites == 2

\* the characters texts are written from: operator letters, the signs of
\* S+ and S-, punctuation, an identifier letter, a blank and a character
\* that no token starts with
Alphabet == {"P", "S", "+", "(", ")", ",", "a", " ", "#"}
Typed == UNION {[1..n -> Alphabet] : n \in 0..MaxLen}

\* trees: atoms; operators over up to MaxArgs atoms; operators over up to
\* two such trees.  Argument counts go from 0 to above every maximum.
Leaves == {Atom(<<"a">>), Atom(<<"$", "x">>)}
Lists(items, n) == UNION {[1..k -> items] : k \in 0..n}
Shallow == {OpExpr(op, args) : op \in OPERATORS, args \in Lists({Atom(<<"a">>)}, MaxArgs)}
Nested == {OpExpr(op, args) : op \in OPERATORS, args \in Lists(Leaves \cup Shallow, 2)}
Trees == Leaves \cup Shallow \cup Nested

\* the characters of an operator tag
OpText(op) == IF op = "S+" THEN <<"S", "+">> ELSE IF op = "S-" THEN <<"S", "-">> ELSE <<op>>

RECURSIVE Written(_), WrittenList(_, _)
\* a tree written out: NAME, OP for no arguments, OP(arg,...,arg)
Written(expr) ==
    IF expr.kind = "Atom" THEN expr.name
    ELSE IF expr.args = <<>> THEN OpText(expr.op)
    ELSE OpText(expr.op) \o <<"(">> \o WrittenList(expr.args, 1) \o <<")">>

WrittenList(args, k) ==
    IF k = Len(args) THEN Written(args[k])
    ELSE Written(args[k]) \o <<",">> \o WrittenList(args, k + 1)

\* the command line of sid_ast_cli.py: the expression text; tree is the
\* tree a text was written from (NoExpr for a typed text)
Argv(expression, tree) == [op |-> "argv", expression |-> expression, tree |-> tree]

\* a package around a diagram, for the rewrites applied to it
Around(diagram) == Package(diagram, KNone, LbAbsent, <<>>)
Unbuilt == [id |-> "d1", compartment_id |-> "", nodes |-> <<>>, edges |-> <<>>]

InitExpression ==
    /\ \/ /\ call \in {Argv(text, NoExpr) : text \in Typed}
                   \cup {Argv(Written(tree), tree) : tree \in Trees}
          /\ pkg = Around(Unbuilt)
       \/ /\ call = NoCall
          /\ pkg \in {Around(d) : d \in Diagrams}
    /\ result = NoResult
    /\ drv = Idle(0)
    /\ heap = NoHeap

\* expr = parse_expression(args.expression)
ParseExpression ==
    LET Returned(r) ==
            result' = [op |-> "parse_expression", ok |-> r.ok, expr |-> r.expr,
                       err |-> r.err, bound |-> r.bound]
    IN  /\ call.op = "argv"
        /\ call' = [op |-> "parse_expression", text |-> call.expression,
                    tree |-> call.tree]
        /\ Returned(parse_expression(call.expression))
        /\ UNCHANGED <<pkg, drv, heap>>

\* payload = expr_to_diagram(expr, diagram_id=...), put into the package
ExprToDiagram ==
    LET Returned(r) ==
            /\ result' = [op |-> "expr_to_diagram", raised |-> r.raised,
                          diagram |-> r.diagram]
            /\ pkg' = IF r.raised THEN pkg ELSE [pkg EXCEPT !.diagrams[1] = r.diagram]
    IN  /\ call.op = "parse_expression"
        /\ result.ok
        /\ call' = [op |-> "expr_to_diagram", expr |-> result.expr,
                    diagram_id |-> "d1"]
        /\ Returned(expr_to_diagram(result.expr, "d1", ""))
        /\ UNCHANGED <<drv, heap>>

\* how many rewrites the diagram d1 of the package has been through
Rewrites == IF call.op = "apply_rewrite_stub" THEN call.nth ELSE 0

\* apply_rewrite_stub on the diagram d1 of the package: a diagram as it was
\* loaded or compiled, or the diagram the last applied rewrite returned,
\* which the caller put into the package
ApplyRewrite(rewrite_rule, apply_all) ==
    LET Returned(r) ==
            /\ result' = r
            /\ pkg' = [pkg EXCEPT !.states[1] = r.state,
                                  !.diagrams[1] = IF r.applied THEN r.diagram ELSE r.caller]
    IN  /\ \/ call = NoCall
           \/ call.op = "expr_to_diagram" /\ ~result.raised
           \/ call.op = "apply_rewrite_stub" /\ result.applied
        /\ Rewrites < MaxRewrites
        /\ call' = [op |-> "apply_rewrite_stub", constraints |-> pkg.constraints,
                    state |-> pkg.states[1], diagram |-> pkg.diagrams[1],
                    csi |-> pkg.csis[1], rewrite_rule |-> rewrite_rule,
                    apply_all |-> apply_all, nth |-> Rewrites + 1]
        /\ Returned(apply_rewrite_stub(pkg.constraints, pkg.states[1], pkg.diagrams[1],
                                       pkg.csis[1], rewrite_rule, apply_all))
        /\ UNCHANGED <<drv, heap>>

NextExpression ==
    \/ ParseExpression
    \/ ExprToDiagram
    \/ \E rewrite_rule \in Rules, apply_all \in BOOLEAN :
           ApplyRewrite(rewrite_rule, apply_all)

SpecExpression == InitExpression /\ [][NextExpression]_vars

\* ------------------------------------------------------------------------
\* The expression parser (spec section 4.1)
\* ------------------------------------------------------------------------

\* the bounds of the arity table as the specification gives them: P, O and
\* T exactly one argument, C exactly two, S+ and S- at least one
AtLeast(op) == IF op = "C" THEN 2 ELSE 1
AtMost(op) == IF op = "C" THEN 2 ELSE IF op \in {"S+", "S-"} THEN MaxArgs + MaxLen ELSE 1

RECURSIVE ArityViolation(_), ArityViolationIn(_, _)
\* the first operator of a tree, arguments before their operator and from
\* left to right, whose argument count is outside its bounds: none, or
\* which bound it breaks
ArityViolation(expr) ==
    LET Own ==
            IF Len(expr.args) < AtLeast(expr.op)
                THEN [err |-> "arity_at_least", bound |-> AtLeast(expr.op)]
            ELSE IF Len(expr.args) > AtMost(expr.op)
                THEN [err |-> "arity_at_most", bound |-> AtMost(expr.op)]
            ELSE [err |-> "", bound |-> 0]
        Inner(v) == IF v.err # "" THEN v ELSE Own
    IN  IF expr.kind = "Atom" THEN [err |-> "", bound |-> 0]
        ELSE Inner(ArityViolationIn(expr.args, 1))

ArityViolationIn(args, k) ==
    IF k > Len(args) THEN [err |-> "", bound |-> 0]
    ELSE LET First(v) == IF v.err # "" THEN v ELSE ArityViolationIn(args, k + 1)
         IN  First(ArityViolation(args[k]))

\* parse_expression was called on a text written from a tree
ParsedFromTree == call.op = "parse_expression" /\ call.tree # NoExpr

\* C17: arity is enforced for every operator at every nesting depth:
\* OP(a1,...,ak) parses iff k is within the bounds of OP (and then to the
\* tree it was written from); below the minimum the parse fails citing the
\* minimum, above the maximum citing the maximum; an operator written
\* without parentheses has zero arguments.
ArityEnforcedAtEveryDepth ==
    LET About(v) ==
            /\ result.ok <=> v.err = ""
            /\ result.ok => result.expr = call.tree
            /\ ~result.ok => result.err = v.err /\ result.bound = v.bound
    IN  ParsedFromTree => About(ArityViolation(call.tree))

\* an operator within its bounds has an argument with too many arguments
TooManyArgumentsInside ==
    /\ ParsedFromTree
    /\ result.err = "arity_at_most"
    /\ Len(call.tree.args) >= AtLeast(call.tree.op)
    /\ Len(call.tree.args) <= AtMost(call.tree.op)

\* the text without its white space
Unspaced(text) == Keep(text, {i \in DOMAIN text : text[i] \notin Space})

\* what a ParseError says
ParseErrors == {"unexpected_character", "empty_expression", "unexpected_token",
                "unexpected_end", "expected_rparen", "trailing_token",
                "arity_at_least", "arity_at_most"}

\* C18: parse_expression returns an AST that covers the entire input (the
\* AST written out is the input without its white space) or raises
\* ParseError (bad character, unexpected token, unterminated input,
\* leftover token, arity violation at any depth) and returns no AST.
ParseIsAllOrNothing ==
    call.op = "parse_expression" =>
        IF result.ok THEN Written(result.expr) = Unspaced(call.text)
        ELSE result.expr = NoExpr /\ result.err \in ParseErrors

\* an expression followed by a token that is left over
LeftoverTokenRejected ==
    /\ call.op = "parse_expression"
    /\ result.err = "trailing_token"
    /\ Len(call.text) = 4
    /\ parse_expression(SubSeq(call.text, 1, 1)).ok


\* ------------------------------------------------------------------------
\* The AST -> diagram compiler (spec section 4.2)
\* ------------------------------------------------------------------------

RECURSIVE OpCount(_), OpCountTo(_, _)
\* the number of operator nodes of a tree
OpCount(expr) ==
    IF expr.kind = "Atom" THEN 0 ELSE 1 + OpCountTo(expr.args, Len(expr.args))

\* the number of operator nodes of the first k trees of a list
OpCountTo(args, k) == IF k = 0 THEN 0 ELSE OpCountTo(args, k - 1) + OpCount(args[k])

RECURSIVE Operators(_, _)
\* the operator nodes of a tree, numbered arguments first and from left to
\* right, the first number being base + 1: for each its number, its
\* operator, its atom arguments and the numbers of its operator children
Operators(expr, base) ==
    IF expr.kind = "Atom" THEN {}
    ELSE LET At(k) == base + OpCountTo(expr.args, k)
             Own == [at |-> base + OpCount(expr), op |-> expr.op,
                     atoms |-> {expr.args[k].name :
                                  k \in {j \in DOMAIN expr.args : expr.args[j].kind = "Atom"}},
                     args |-> Len(expr.args),
                     children |-> {At(k) : k \in {j \in DOMAIN expr.args :
                                                     expr.args[j].kind = "OpExpr"}}]
         IN  {Own} \cup UNION {Operators(expr.args[k], At(k - 1)) : k \in DOMAIN expr.args}

\* expr_to_diagram returned a diagram
Compiled == call.op = "expr_to_diagram" /\ ~result.raised

\* C19: the compiled diagram has exactly one node per operator node of the
\* AST (a single P node carrying the atom when the expression is a bare
\* atom) and exactly one edge, labeled "arg" and directed from child to
\* parent, per operator child of an operator; atom arguments add no node
\* and no edge; a P node with a single atom argument carries it as its
\* dof_refs.
CompiledDiagramFollowsTree ==
    LET Follows(d, ops) ==
            /\ Len(d.nodes) = Cardinality(ops)
            /\ \A o \in ops :
                   /\ d.nodes[o.at].op = o.op
                   /\ o.op = "P" /\ o.args = 1 /\ Cardinality(o.atoms) = 1
                          => \E name \in o.atoms : d.nodes[o.at].dof_refs = <<name>>
            /\ Len(d.edges) = Cardinality(UNION {{<<c, o.at>> : c \in o.children} : o \in ops})
            /\ {<<d.edges[k].from, d.edges[k].to, d.edges[k].label>> : k \in DOMAIN d.edges}
                   = UNION {{<<d.nodes[c].id, d.nodes[o.at].id, "arg">> : c \in o.children} : o \in ops}
        OfAtom(d, name) ==
            /\ Len(d.nodes) = 1
            /\ d.nodes[1].op = "P"
            /\ d.nodes[1].dof_refs = <<name>>
            /\ d.edges = <<>>
    IN  call.op = "expr_to_diagram" =>
            /\ ~result.raised
            /\ IF call.expr.kind = "Atom" THEN OfAtom(result.diagram, call.expr.name)
               ELSE Follows(result.diagram, Operators(call.expr, 0))

\* Scenario B: C(P(a),P(a)) compiles to two P nodes and a C node with two
\* edges into the C node
TwoProjectionsCoupled ==
    /\ Compiled
    /\ call.expr = OpExpr("C", <<OpExpr("P", <<Atom(<<"a">>)>>), OpExpr("P", <<Atom(<<"a">>)>>)>>)
    /\ Len(result.diagram.nodes) = 3
    /\ Len(result.diagram.edges) = 2

\* no two nodes of the diagram share an id and no two edges share an id
UniqueIds(diagram) ==
    /\ \A i, j \in DOMAIN diagram.nodes : diagram.nodes[i].id = diagram.nodes[j].id => i = j
    /\ \A i, j \in DOMAIN diagram.edges : diagram.edges[i].id = diagram.edges[j].id => i = j

\* C20: node ids and edge ids are unique within a diagram: in every
\* diagram produced by expr_to_diagram, and in every diagram returned
\* after any sequence of applied rewrites on a diagram with unique ids.
IdsUniqueInDiagram ==
    /\ Compiled => UniqueIds(result.diagram)
    /\ call.op = "apply_rewrite_stub" /\ result.applied /\ UniqueIds(call.diagram)
           => UniqueIds(result.diagram)

\* the second rewrite in a row was applied and made a node and an edge
SecondRewriteMadeIds ==
    /\ call.op = "apply_rewrite_stub"
    /\ call.nth = 2
    /\ result.applied
    /\ UniqueIds(call.diagram)
    /\ NodeIdSet(result.diagram) \ NodeIdSet(call.diagram) # {}
    /\ EdgeIdSet(result.diagram) \ EdgeIdSet(call.diagram) # {}

\* ------------------------------------------------------------------------
\* validate_package on packages with defects
\* ------------------------------------------------------------------------

\* the largest number of defects put into one package
MaxDefects == 2

\* the defects a package document can carry, by name
Defects ==
    {"dup_dof", "no_dof_id", "dup_compartment", "dup_csi", "no_csi_id",
     "dup_diagram", "no_diagram_id", "dup_state", "no_state_id",
     "dup_constraint", "no_constraint_id", "dup_rule", "no_rule_id",
     "dup_node", "dup_edge", "dangling_edge", "dangling_input", "unknown_dof",
     "diagram_compartment", "state_diagram", "state_csi", "state_compartment"}

DefectSets == {D \in SUBSET Defects : Cardinality(D) <= MaxDefects}

\* a second diagram document with the id d1, whose edge ends at no node
DgShadow ==
    [id |-> "d1", compartment_id |-> "",
     nodes |-> <<Node("n1", "P", <<>>, <<<<"F">>>>)>>,
     edges |-> <<Edge("e1", "n1", "n9", "arg")>>]

\* a diagram document without an id, whose node reads an input that is no node
DgNameless ==
    [id |-> "", compartment_id |-> "",
     nodes |-> <<Node("n1", "P", <<"n9">>, <<<<"F">>>>)>>,
     edges |-> <<>>]

\* the list, with more put after it when the package carries the defect
With(D, defect, items, more) == IF defect \in D THEN items \o more ELSE items

\* the diagram d1 of a package with the defects D: DgPair, changed
DefectiveDiagram(D) ==
    [id |-> "d1",
     compartment_id |-> IF "diagram_compartment" \in D THEN "k9" ELSE "",
     nodes |->
        With(D, "dup_node",
            With(D, "dangling_input",
                With(D, "unknown_dof", DgPair.nodes, <<Node("n4", "P", <<>>, <<<<"Z">>>>)>>),
                <<Node("n5", "S+", <<"n9">>, <<>>)>>),
            <<Node("n1", "P", <<>>, <<<<"F">>>>)>>),
     edges |->
        With(D, "dup_edge",
            With(D, "dangling_edge", DgPair.edges, <<Edge("e8", "n1", "n9", "arg")>>),
            <<Edge("e1", "n1", "n3", "arg")>>)]

\* the package with the defects D
Defective(D) ==
    [dofs |-> With(D, "no_dof_id",
                  With(D, "dup_dof", <<[id |-> <<"F">>], [id |-> <<"J">>]>>, <<[id |-> <<"F">>]>>),
                  <<[id |-> <<>>]>>),
     compartments |-> With(D, "dup_compartment", <<[id |-> "k2"]>>, <<[id |-> "k2"]>>),
     csis |-> With(D, "no_csi_id",
                  With(D, "dup_csi", <<CsiOpen>>, <<CsiOpen>>),
                  <<[CsiOpen EXCEPT !.id = ""]>>),
     diagrams |-> With(D, "no_diagram_id",
                      With(D, "dup_diagram", <<DefectiveDiagram(D), Bystander>>, <<DgShadow>>),
                      <<DgNameless>>),
     states |->
        With(D, "no_state_id",
            With(D, "dup_state",
                <<[State("s1", "d1", "c1", LbAbsent) EXCEPT
                      !.compartment_id = IF "state_compartment" \in D THEN "k9" ELSE ""],
                  State("s2", IF "state_diagram" \in D THEN "d9" ELSE "d2",
                        IF "state_csi" \in D THEN "c9" ELSE "c1", LbAbsent)>>,
                <<State("s1", "d9", "c1", LbAbsent)>>),
            <<State("", "d1", "c1", LbAbsent)>>),
     constraints |->
        With(D, "no_constraint_id",
            With(D, "dup_constraint", KAcyclic, <<KAcyclic[1]>>),
            <<[id |-> "", type |-> "soft", predicate |-> "no_cycles"]>>),
     rewrite_rules |->
        With(D, "no_rule_id",
            With(D, "dup_rule", <<RxCollapse, RgReverse>>, <<RxCollapse>>),
            <<[RxWrap EXCEPT !.id = ""]>>)]

\* packages without a defect of structure, with the constraint lists of
\* every type and predicate on each diagram of the catalogue
Constrained == {Package(d, k, LbAbsent, <<>>) : d \in Diagrams, k \in LabelConstraintLists}

InitValidation ==
    /\ pkg \in {Defective(D) : D \in DefectSets} \cup Constrained
    /\ call = NoCall
    /\ result = NoResult
    /\ drv = Idle(0)
    /\ heap = NoHeap

NextValidation == ValidatePackage

SpecValidation == InitValidation /\ [][NextValidation]_vars

\* ------------------------------------------------------------------------
\* Validation (spec section 4.3)
\* ------------------------------------------------------------------------

\* validate_package returned
Validated == call.op = "validate_package"

\* the error list holds a finding of that category about that thing
Found(category, what, ref) ==
    \E e \in DOMAIN result.errors :
        /\ result.errors[e].category = category
        /\ result.errors[e].what = what
        /\ result.errors[e].ref = ref

\* the error list reports the items of a top-level collection that lack an
\* id and those that repeat an earlier id
IdsReported(items, missing, item_type) ==
    \A i \in DOMAIN items :
        /\ items[i].id = missing => Found("missing_id", item_type, "")
        /\ items[i].id # missing /\ (\E j \in 1..(i - 1) : items[j].id = items[i].id)
               => Found("duplicate_id", item_type, items[i].id)

\* the error list reports the defects within one diagram document
DiagramReported(p, diagram) ==
    LET known == {diagram.nodes[i].id : i \in DOMAIN diagram.nodes}
        dofs == {p.dofs[i].id : i \in DOMAIN p.dofs}
    IN  /\ \A i \in DOMAIN diagram.nodes :
               /\ (\E j \in 1..(i - 1) : diagram.nodes[j].id = diagram.nodes[i].id)
                      => Found("duplicate_id", "node", diagram.nodes[i].id)
               /\ (\E r \in DOMAIN diagram.nodes[i].inputs : diagram.nodes[i].inputs[r] \notin known)
                      => Found("missing_reference", "input", diagram.nodes[i].id)
               /\ (\E r \in DOMAIN diagram.nodes[i].dof_refs : diagram.nodes[i].dof_refs[r] \notin dofs)
                      => Found("missing_reference", "dof", diagram.nodes[i].id)
        /\ \A i \in DOMAIN diagram.edges :
               /\ (\E j \in 1..(i - 1) : diagram.edges[j].id = diagram.edges[i].id)
                      => Found("duplicate_id", "edge", diagram.edges[i].id)
               /\ (diagram.edges[i].from \notin known \/ diagram.edges[i].to \notin known)
                      => Found("missing_reference", "edge", diagram.edges[i].id)
        /\ (diagram.compartment_id # ""
                /\ \A c \in DOMAIN p.compartments : p.compartments[c].id # diagram.compartment_id)
               => Found("missing_reference", "compartment", diagram.id)

\* the error list reports the references of one state document that
\* resolve to nothing
StateReported(p, state) ==
    /\ (\A d \in DOMAIN p.diagrams : p.diagrams[d].id # state.diagram_id)
           => Found("missing_reference", "state_diagram", state.id)
    /\ (\A c \in DOMAIN p.csis : p.csis[c].id # state.csi_id)
           => Found("missing_reference", "state_csi", state.id)
    /\ (state.compartment_id # ""
            /\ \A c \in DOMAIN p.compartments : p.compartments[c].id # state.compartment_id)
           => Found("missing_reference", "state_compartment", state.id)

\* C21: validate_package never stops at the first finding: on any package
\* it returns, and its error list holds a finding for every defect
\* present: a duplicate or missing id in any top-level collection (dofs,
\* compartments, csis, diagrams, states, constraints, rewrite_rules),
\* duplicate node or edge ids, dangling edge endpoints, inputs, dof-refs
\* and compartment references of every diagram, and missing diagram, csi
\* and compartment references of every state.
FindingForEveryDefect ==
    LET Reported(p) ==
            /\ IdsReported(p.dofs, <<>>, "DOF")
            /\ IdsReported(p.compartments, "", "compartment")
            /\ IdsReported(p.csis, "", "CSI")
            /\ IdsReported(p.diagrams, "", "diagram")
            /\ IdsReported(p.states, "", "state")
            /\ IdsReported(p.constraints, "", "constraint")
            /\ IdsReported(p.rewrite_rules, "", "rewrite_rule")
            /\ \A d \in DOMAIN p.diagrams : DiagramReported(p, p.diagrams[d])
            /\ \A s \in DOMAIN p.states : StateReported(p, p.states[s])
    IN  Validated => Reported(call.pkg)

\* the documents of a collection that enter its index: those with an id
\* that no earlier document of the collection has
Entered(items) ==
    {i \in DOMAIN items : items[i].id # "" /\ \A j \in 1..(i - 1) : items[j].id # items[i].id}

\* C21 for the five indexed collections and the diagrams and states that
\* enter the index: the part validate_package accumulates in one pass
FindingForEveryIndexedDefect ==
    LET Reported(p) ==
            /\ IdsReported(p.dofs, <<>>, "DOF")
            /\ IdsReported(p.compartments, "", "compartment")
            /\ IdsReported(p.csis, "", "CSI")
            /\ IdsReported(p.diagrams, "", "diagram")
            /\ IdsReported(p.states, "", "state")
            /\ \A d \in Entered(p.diagrams) : DiagramReported(p, p.diagrams[d])
            /\ \A s \in Entered(p.states) : StateReported(p, p.states[s])
    IN  Validated => Reported(call.pkg)

\* how many elements of a list satisfy a test
Count(items, Test(_)) == Cardinality({i \in DOMAIN items : Test(items[i])})

\* the states of the package that validate_package evaluates: the states of
\* the index whose diagram and CSI resolve; with them their diagram and CSI
EvaluatedStates(p) ==
    {[state |-> p.states[s], diagram |-> p.diagrams[d], csi |-> p.csis[c]] :
        s \in Entered(p.states), d \in Entered(p.diagrams), c \in Entered(p.csis)}
    \cap {at \in [state : Range(p.states), diagram : Range(p.diagrams), csi : Range(p.csis)] :
             at.state.diagram_id = at.diagram.id /\ at.state.csi_id = at.csi.id}

\* the positions of the constraint list at which a constraint of that type
\* (hard for a record that declares none) and id fails on the state
FailingAt(p, at, type, id) ==
    {k \in DOMAIN p.constraints :
        /\ Severity(p.constraints[k]) = type
        /\ p.constraints[k].id = id
        /\ Fails(p.constraints[k], at.state, at.diagram, at.csi)}

RECURSIVE SumOver(_, _)
\* the sum of the numbers f[x] over the elements x of dom
SumOver(f, dom) ==
    IF dom = {} THEN 0
    ELSE LET x == CHOOSE y \in dom : TRUE IN f[x] + SumOver(f, dom \ {x})

\* C22: for every state whose diagram and CSI resolve, each declared
\* constraint whose predicate fails yields one finding in validate_package:
\* an error if the constraint is hard, a warning if it is soft; a package
\* whose only failing constraints are soft (and that validates without
\* errors when its constraint list is taken away) has an empty error list.
FailedConstraintIsErrorOrWarning ==
    LET ViolationOf(state_id, id, e) ==
            e.category = "constraint_violation" /\ e.what = state_id /\ e.ref = id
        WarningOf(id, w) == w.code = "constraint_failed" /\ w.ref = id
        Ids(p) == {p.constraints[k].id : k \in DOMAIN p.constraints}
        OnlySoftFail(p) ==
            \A at \in EvaluatedStates(p) : \A k \in DOMAIN p.constraints :
                Fails(p.constraints[k], at.state, at.diagram, at.csi)
                    => p.constraints[k].type = "soft"
        CleanWithout(p) == validate_package([p EXCEPT !.constraints = <<>>]).errors = <<>>
        About(p) ==
            /\ \A at \in EvaluatedStates(p) : \A id \in Ids(p) :
                   Cardinality({e \in DOMAIN result.errors :
                                   ViolationOf(at.state.id, id, result.errors[e])})
                       = Cardinality(FailingAt(p, at, "hard", id))
            /\ \A id \in Ids(p) :
                   Cardinality({w \in DOMAIN result.warnings : WarningOf(id, result.warnings[w])})
                       = SumOver([at \in EvaluatedStates(p) |->
                                     Cardinality(FailingAt(p, at, "soft", id))],
                                 EvaluatedStates(p))
            /\ OnlySoftFail(p) /\ CleanWithout(p) => result.errors = <<>>
    IN  Validated => About(call.pkg)

\* a soft constraint fails next to a hard one that holds: a warning and no error
SoftFailureOnlyWarns ==
    /\ Validated
    /\ result.errors = <<>>
    /\ \E w \in DOMAIN result.warnings : result.warnings[w].code = "constraint_failed"
    /\ \E k \in DOMAIN call.pkg.constraints : call.pkg.constraints[k].type = "hard"
    /\ \E k \in DOMAIN call.pkg.constraints :
           /\ call.pkg.constraints[k].type = "soft"
           /\ Fails(call.pkg.constraints[k], call.pkg.states[1], call.pkg.diagrams[1],
                    call.pkg.csis[1])

\* ------------------------------------------------------------------------
\* The no_cycles predicate on small graphs
\* ------------------------------------------------------------------------

\* the longest edge list of a graph
MaxEdges == 3

GraphIds == {"n1", "n2", "n3"}

\* node lists, in the order the documents give them: all three ids in two
\* orders, and lists that leave an id out (an edge at that id then dangles)
NodeLists == {<<"n1", "n2", "n3">>, <<"n3", "n2", "n1">>, <<"n1", "n2">>, <<"n3">>}

\* edge lists of up to MaxEdges edges between the ids, self-loops and
\* repeated edges included
EdgeLists == UNION {[1..n -> GraphIds \X GraphIds] : n \in 0..MaxEdges}

Graph(ids, pairs) ==
    [id |-> "d1", compartment_id |-> "",
     nodes |-> [i \in DOMAIN ids |-> Node(ids[i], "S+", <<>>, <<>>)],
     edges |-> [k \in DOMAIN pairs |->
                   Edge("e" \o ToString(k), pairs[k][1], pairs[k][2], "arg")]]

InitCycles ==
    /\ pkg \in {Around(Graph(ids, pairs)) : ids \in NodeLists, pairs \in EdgeLists}
    /\ call = NoCall
    /\ result = NoResult
    /\ drv = Idle(0)
    /\ heap = NoHeap

\* PREDICATES["no_cycles"](state, diagram, csi) on the diagram d1 of the package
NoCycles ==
    LET Returned(r) == result' = [op |-> "no_cycles", ok |-> r.ok, ref |-> r.ref]
    IN  /\ call = NoCall
        /\ call' = [op |-> "no_cycles", state |-> pkg.states[1],
                    diagram |-> pkg.diagrams[1], csi |-> pkg.csis[1]]
        /\ Returned(no_cycles(pkg.states[1], pkg.diagrams[1], pkg.csis[1]))
        /\ UNCHANGED <<pkg, drv, heap>>

NextCycles == NoCycles

SpecCycles == InitCycles /\ [][NextCycles]_vars

\* the id lies on a directed cycle of the edges of the diagram
OnCycle(diagram, id) ==
    \E k \in DOMAIN diagram.edges :
        /\ diagram.edges[k].from = id
        /\ id \in ReachableFrom(diagram, {diagram.edges[k].to}, Len(diagram.edges))

\* C23: no_cycles returns false exactly when the edges of the diagram
\* contain a directed cycle (a self-loop included) and true otherwise, and
\* when it returns false its message names a node that lies on a cycle.
NoCyclesIffAcyclic ==
    call.op = "no_cycles" =>
        /\ result.ok <=> ~DirectedCycle(call.diagram)
        /\ ~result.ok => OnCycle(call.diagram, result.ref)

\* C23 for diagrams whose edges all leave nodes of the diagram: the verdict
\* is right, whichever node the message names
NoCyclesVerdictOnNodes ==
    (call.op = "no_cycles"
         /\ \A k \in DOMAIN call.diagram.edges :
                call.diagram.edges[k].from \in NodeIdSet(call.diagram)) =>
        (result.ok <=> ~DirectedCycle(call.diagram))


\* ------------------------------------------------------------------------
\* Two runs of one operation on the same package
\* ------------------------------------------------------------------------

\* a caller runs an operation on the documents of a package and then a
\* second operation on the same objects, as the first run left them
MaxRepeat == 2

RerunRules == {RxCollapse, RxWrap, RxSame}

InitRerun ==
    /\ pkg \in {Package(d, k, lb, <<RxCollapse>>) :
                   d \in Diagrams, k \in ConstraintLists, lb \in StartLabels}
    /\ call = NoCall
    /\ result = NoResult
    /\ drv = Idle(0)
    /\ heap = NoHeap

\* the record of a run: its operation and arguments, the package it was
\* given, and the run before it with its result
Run(op, args) ==
    IF call = NoCall
        THEN [op |-> op, args |-> args, pkg |-> pkg, run |-> 1, prev |-> NoCall]
    ELSE [op |-> op, args |-> args, pkg |-> pkg, run |-> call.run + 1,
          prev |-> [op |-> call.op, args |-> call.args, pkg |-> call.pkg,
                    result |-> result]]

MayRun == IF call = NoCall THEN TRUE ELSE call.run < MaxRepeat

RunAssignInuLabels ==
    /\ MayRun
    /\ call' = Run("assign_inu_labels", <<>>)
    /\ result' = [op |-> "assign_inu_labels",
                  labels |-> assign_inu_labels(pkg.diagrams[1], pkg.constraints,
                                               pkg.states[1], pkg.csis[1])]
    /\ UNCHANGED <<pkg, drv, heap>>

RunValidatePackage ==
    LET Returned(r) ==
            /\ result' = [op |-> "validate_package", errors |-> r.errors,
                          warnings |-> r.warnings]
            /\ pkg' = [pkg EXCEPT !.states = r.states]
    IN  /\ MayRun
        /\ call' = Run("validate_package", <<>>)
        /\ Returned(validate_package(pkg))
        /\ UNCHANGED <<drv, heap>>

RunApplyRewriteStub(rewrite_rule) ==
    LET Returned(r) ==
            /\ result' = [op |-> "apply_rewrite_stub", applied |-> r.applied,
                          diagram |-> r.diagram, messages |-> r.messages]
            /\ pkg' = [pkg EXCEPT !.states[1] = r.state, !.diagrams[1] = r.caller]
    IN  /\ MayRun
        /\ call' = Run("apply_rewrite_stub", <<rewrite_rule>>)
        /\ Returned(apply_rewrite_stub(pkg.constraints, pkg.states[1], pkg.diagrams[1],
                                       pkg.csis[1], rewrite_rule, FALSE))
        /\ UNCHANGED <<drv, heap>>

RunIsStructurallyStable ==
    LET Returned(r) ==
            /\ result' = [op |-> "is_structurally_stable", is_stable |-> r.is_stable,
                          satisfied |-> r.satisfied, message |-> r.message]
            /\ pkg' = StateWritten("s1", r.state)
    IN  /\ MayRun
        /\ call' = Run("is_structurally_stable", <<>>)
        /\ Returned(is_structurally_stable(pkg, "s1", "d1", Tolerance(1, 1000000), FALSE))
        /\ UNCHANGED <<drv, heap>>

NextRerun ==
    \/ RunAssignInuLabels
    \/ RunValidatePackage
    \/ \E rewrite_rule \in RerunRules : RunApplyRewriteStub(rewrite_rule)
    \/ RunIsStructurallyStable

SpecRerun == InitRerun /\ [][NextRerun]_vars

\* ------------------------------------------------------------------------
\* Determinism (spec section on security hyperproperties)
\* ------------------------------------------------------------------------

Second == IF call = NoCall THEN FALSE ELSE call.run >= 2

\* the second run was given what the first run was given
SameInputs ==
    /\ call.op = call.prev.op
    /\ call.args = call.prev.args
    /\ call.pkg = call.prev.pkg

\* the first run stored labels for the state s1, and left the diagram and
\* the constraints as they were
LabelsStoredBefore ==
    /\ ~call.prev.pkg.states[1].has_labels
    /\ call.pkg.states[1].has_labels
    /\ call.pkg.diagrams[1] = call.prev.pkg.diagrams[1]
    /\ call.pkg.constraints = call.prev.pkg.constraints

RewrittenTwice ==
    /\ Second
    /\ SameInputs
    /\ call.op = "apply_rewrite_stub"
    /\ result.applied


\* ------------------------------------------------------------------------
\* find_first_match on small diagrams and edge-patterns
\* ------------------------------------------------------------------------

MaxMatchEdges == 2
MaxPatterns == 2

VarX == <<"$", "x">>
VarY == <<"$", "y">>
VarZ == <<"$", "z">>

MatchNodes == <<Node("n1", "P", <<>>, <<>>), Node("n2", "O", <<>>, <<>>),
                Node("n3", "P", <<>>, <<>>)>>

\* from, to, label of the edges a diagram is made of; n9 is no node
EdgeShapes == {<<"n1", "n2", "arg">>, <<"n2", "n3", "arg">>, <<"n2", "n2", "arg">>,
               <<"n3", "n1", "next">>, <<"n2", "n9", "arg">>}

\* the ids of the edges: one per position, the same id twice, or no id
EdgeIdSchemes == {<<"e1", "e2", "e3">>, <<"e1", "e1", "e3">>, <<"", "e2", "e3">>}

MatchDiagrams ==
    {[id |-> "d1", compartment_id |-> "", nodes |-> MatchNodes,
      edges |-> [k \in DOMAIN shapes |->
                    Edge(ids[k], shapes[k][1], shapes[k][2], shapes[k][3])]] :
        shapes \in UNION {[1..n -> EdgeShapes] : n \in 0..MaxMatchEdges},
        ids \in EdgeIdSchemes}

EdgePatterns ==
    {[left |-> SidePattern(FALSE, "", VarX), edge_label |-> "arg",
      right |-> SidePattern(FALSE, "", VarY)],
     [left |-> SidePattern(FALSE, "", VarY), edge_label |-> "arg",
      right |-> SidePattern(FALSE, "", VarZ)],
     [left |-> SidePattern(TRUE, "P", VarX), edge_label |-> "arg",
      right |-> SidePattern(TRUE, "O", VarY)],
     [left |-> SidePattern(FALSE, "", VarX), edge_label |-> "arg",
      right |-> SidePattern(FALSE, "", VarX)],
     [left |-> SidePattern(TRUE, "O", VarY), edge_label |-> "arg",
      right |-> SidePattern(TRUE, "P", VarX)],
     [left |-> SidePattern(FALSE, "", VarZ), edge_label |-> "next",
      right |-> SidePattern(FALSE, "", VarX)]}

\* RulePattern(edges): parse_rule_pattern returns at least one edge-pattern
RulePatterns ==
    {[edges |-> edges] : edges \in UNION {[1..n -> EdgePatterns] : n \in 1..MaxPatterns}}

ForbiddenSets == {{}, {"e1"}}

InitMatch ==
    /\ pkg \in {Package(d, <<>>, LbAbsent, <<>>) : d \in MatchDiagrams}
    /\ call = NoCall
    /\ result = NoResult
    /\ drv = Idle(0)
    /\ heap = NoHeap

FindFirstMatch(pattern, forbidden_edges) ==
    LET Returned(match) ==
            result' = [op |-> "find_first_match", ok |-> match.ok, b |-> match.b,
                       edge_ids |-> match.edge_ids]
    IN  /\ Loaded
        /\ call' = [op |-> "find_first_match", diagram |-> pkg.diagrams[1],
                    pattern |-> pattern, forbidden_edges |-> forbidden_edges]
        /\ Returned(find_first_match(pkg.diagrams[1], pattern, forbidden_edges))
        /\ UNCHANGED <<pkg, drv, heap>>

NextMatch == \E pattern \in RulePatterns, forbidden_edges \in ForbiddenSets :
                 FindFirstMatch(pattern, forbidden_edges)

SpecMatch == InitMatch /\ [][NextMatch]_vars

\* ------------------------------------------------------------------------
\* Edge-pattern matching (spec section 4.5)
\* ------------------------------------------------------------------------

\* the variables of a pattern
VarsOf(pattern) ==
    UNION {{pattern.edges[i].left.var, pattern.edges[i].right.var} :
              i \in DOMAIN pattern.edges}

\* the node carries the operator tag a side requires
Tagged(side, node) == side.has_op => node.op = side.op

\* f assigns an edge of the diagram (by position) to every edge-pattern:
\* the edges have ids, pairwise different and not forbidden, and each has
\* the label of its edge-pattern and two endpoints among the nodes, with
\* the operator tags its sides require
AssignsEdges(diagram, pattern, forbidden, f) ==
    /\ \A i \in DOMAIN f :
           LET edge == diagram.edges[f[i]]
               edge_pattern == pattern.edges[i]
           IN  /\ edge.id # ""
               /\ edge.id \notin forbidden
               /\ edge.label = edge_pattern.edge_label
               /\ HasNode(diagram, edge.from)
               /\ HasNode(diagram, edge.to)
               /\ Tagged(edge_pattern.left, NodeAt(diagram, edge.from))
               /\ Tagged(edge_pattern.right, NodeAt(diagram, edge.to))
    /\ \A i, j \in DOMAIN f :
           i # j => diagram.edges[f[i]].id # diagram.edges[f[j]].id

\* b binds every variable to the one node it stands for under f
BindsNodes(diagram, pattern, f, b) ==
    /\ DOMAIN b = VarsOf(pattern)
    /\ \A i \in DOMAIN f :
           /\ b[pattern.edges[i].left.var] = diagram.edges[f[i]].from
           /\ b[pattern.edges[i].right.var] = diagram.edges[f[i]].to

Assignments(diagram, pattern) == [DOMAIN pattern.edges -> DOMAIN diagram.edges]

\* the assignments with a binding: no variable stands for two nodes
Matchings(diagram, pattern, forbidden) ==
    {f \in Assignments(diagram, pattern) :
        /\ AssignsEdges(diagram, pattern, forbidden, f)
        /\ \E b \in [VarsOf(pattern) -> NodeIdSet(diagram)] :
               BindsNodes(diagram, pattern, f, b)}

\* C25: find_first_match returns a match exactly when the edge-patterns can
\* be assigned edges of the diagram that are not forbidden and differ
\* pairwise (edges are told apart by their ids), each with the required
\* label and endpoints with the required operator tags, every variable
\* standing for one node throughout; the bindings returned are those of
\* such an assignment and the consumed edge ids are the ids of its edges.
FirstMatchIsAnAssignment ==
    call.op = "find_first_match" =>
        LET M == Matchings(call.diagram, call.pattern, call.forbidden_edges)
        IN  /\ result.ok <=> M # {}
            /\ result.ok =>
                   \E f \in M :
                       /\ BindsNodes(call.diagram, call.pattern, f, result.b)
                       /\ result.edge_ids =
                              {call.diagram.edges[f[i]].id : i \in DOMAIN f}

\* the first candidate for the first edge-pattern could not be continued,
\* and the search found a match through another one
MatchedAfterBacktracking ==
    /\ call.op = "find_first_match"
    /\ result.ok
    /\ Len(call.pattern.edges) = 2
    /\ match_edge_pattern(call.pattern.edges[1], call.diagram.edges[1],
                          call.diagram, NoBindings).ok
    /\ call.diagram.edges[1].id \notin call.forbidden_edges \cup {""}
    /\ result.b[call.pattern.edges[1].left.var] # call.diagram.edges[1].from

\* no edge is left for the second edge-pattern: the one edge that fits is
\* already used by the first
NoMatchForWantOfAnEdge ==
    /\ call.op = "find_first_match"
    /\ ~result.ok
    /\ Len(call.pattern.edges) = 2
    /\ call.pattern.edges[1] = call.pattern.edges[2]
    /\ find_first_match(call.diagram, [edges |-> <<call.pattern.edges[1]>>],
                        call.forbidden_edges).ok


\* ------------------------------------------------------------------------
\* The package driver (spec section 4.5)
\* ------------------------------------------------------------------------

\* apply_rewrites_to_package has returned or raised
PackageRewritten ==
    /\ drv.pc = "idle"
    /\ call.op = "apply_rewrites_to_package"
    /\ result.op = "apply_rewrites_to_package"

\* the diagram list with the first diagram of that id replaced
Swapped(diagrams, diagram_id, final) ==
    [k \in DOMAIN diagrams |->
        IF diagrams[k].id = diagram_id
           /\ \A j \in 1..(k - 1) : diagrams[j].id # diagram_id
        THEN final ELSE diagrams[k]]

PassesCollapseCheck(diagram) == validate_collapse_irreversibility(<<diagram>>) = <<>>

\* C27: every O node of a diagram that expr_to_diagram returns is marked
\* irreversible, and a diagram that passes the collapse-irreversibility
\* check passes it again after an applied rewrite, whichever form the rule
\* has.
CollapseAlwaysIrreversible ==
    /\ (call.op = "expr_to_diagram" /\ ~result.raised) =>
           PassesCollapseCheck(result.diagram)
    /\ (call.op = "apply_rewrite_stub" /\ result.applied
          /\ PassesCollapseCheck(call.diagram)) =>
           PassesCollapseCheck(result.diagram)

\* the part of C27 that holds: the O nodes an expression-form replacement
\* builds are marked irreversible
ExprFormKeepsCollapseIrreversible ==
    (call.op = "apply_rewrite_stub" /\ result.applied
       /\ HasExprForm(call.rewrite_rule)
       /\ PassesCollapseCheck(call.diagram)) =>
        PassesCollapseCheck(result.diagram)


\* ------------------------------------------------------------------------
\* Identity rewrites: rules whose replacement is their pattern
\* ------------------------------------------------------------------------

RiProjection == [RxSame EXCEPT !.id = "ip"]

RiCollapse ==
    [id |-> "io", pattern_expr |-> <<"O", "(", "$", "x", ")">>,
     replacement_expr |-> <<"O", "(", "$", "x", ")">>,
     pattern |-> <<>>, replacement |-> <<>>, preconditions |-> <<>>]

RiSuperpose ==
    [id |-> "is", pattern_expr |-> <<"S", "+", "(", "$", "x", ")">>,
     replacement_expr |-> <<"S", "+", "(", "$", "x", ")">>,
     pattern |-> <<>>, replacement |-> <<>>, preconditions |-> <<>>]

RiEdge ==
    [id |-> "ie", pattern_expr |-> <<>>, replacement_expr |-> <<>>,
     pattern |-> <<"x", " ", "-", "-", "a", "r", "g", "-", "-", ">", " ", "y">>,
     replacement |-> <<"x", " ", "-", "-", "a", "r", "g", "-", "-", ">", " ", "y">>,
     preconditions |-> <<>>]

RiTagged ==
    [id |-> "it", pattern_expr |-> <<>>, replacement_expr |-> <<>>,
     pattern |-> <<"P", "(", "x", ")", " ", "-", "-", "a", "r", "g", "-", "-", ">", " ", "y">>,
     replacement |-> <<"P", "(", "x", ")", " ", "-", "-", "a", "r", "g", "-", "-", ">", " ", "y">>,
     preconditions |-> <<>>]

IdentityRules == {RiProjection, RiCollapse, RiSuperpose, RiEdge, RiTagged}

\* pattern == replacement, as check_only_identity_rewrites compares them
IsIdentity(rule) ==
    (IF rule.pattern # <<>> THEN rule.pattern ELSE rule.pattern_expr)
        = (IF rule.replacement # <<>> THEN rule.replacement ELSE rule.replacement_expr)

ApplyIdentityRewrite(rewrite_rule, apply_all) ==
    LET Returned(r) ==
            /\ result' = r
            /\ pkg' = [pkg EXCEPT !.states[1] = r.state, !.diagrams[1] = r.caller]
    IN  /\ Loaded
        /\ call' = [op |-> "apply_rewrite_stub", constraints |-> pkg.constraints,
                    state |-> pkg.states[1], diagram |-> pkg.diagrams[1],
                    csi |-> pkg.csis[1], rewrite_rule |-> rewrite_rule,
                    apply_all |-> apply_all]
        /\ Returned(apply_rewrite_stub(pkg.constraints, pkg.states[1], pkg.diagrams[1],
                                       pkg.csis[1], rewrite_rule, apply_all))
        /\ UNCHANGED <<drv, heap>>

NextIdentity == \E rewrite_rule \in IdentityRules, apply_all \in BOOLEAN :
                    ApplyIdentityRewrite(rewrite_rule, apply_all)

SpecIdentity == InitStub /\ [][NextIdentity]_vars

\* ------------------------------------------------------------------------
\* Identity rewrites (spec section 4.6, condition 3)
\* ------------------------------------------------------------------------

\* how many edges with that label lead from one node to the other
EdgesBetween(diagram, from, to, label) ==
    Cardinality({k \in DOMAIN diagram.edges :
                    /\ diagram.edges[k].from = from
                    /\ diagram.edges[k].to = to
                    /\ diagram.edges[k].label = label})

\* the two diagrams are one graph up to the ids: a one-to-one renaming of
\* the nodes keeps operator tags and dof-refs and the edges between them
SameUpToIds(before, after) ==
    /\ Len(before.nodes) = Len(after.nodes)
    /\ Len(before.edges) = Len(after.edges)
    /\ \E f \in [DOMAIN before.nodes -> DOMAIN after.nodes] :
           /\ \A i, j \in DOMAIN f : i # j => f[i] # f[j]
           /\ \A i \in DOMAIN f :
                  /\ after.nodes[f[i]].op = before.nodes[i].op
                  /\ after.nodes[f[i]].dof_refs = before.nodes[i].dof_refs
           /\ \A i, j \in DOMAIN f :
                  \A label \in {before.edges[k].label : k \in DOMAIN before.edges} :
                      EdgesBetween(after, after.nodes[f[i]].id, after.nodes[f[j]].id, label)
                          = EdgesBetween(before, before.nodes[i].id, before.nodes[j].id, label)

\* C28: applying a rule whose replacement equals its pattern returns the
\* diagram it was given up to the ids: the same nodes, with their operator
\* tags and dof-refs, and the same edges between them.
IdentityRewriteChangesNothing ==
    (call.op = "apply_rewrite_stub" /\ result.applied /\ IsIdentity(call.rewrite_rule)) =>
        SameUpToIds(call.diagram, result.diagram)

\* the part of C28 that holds: an identity rule over bare variables
\* (x --arg--> y) puts back the edge it consumed
BareEdgeIdentityChangesNothing ==
    (call.op = "apply_rewrite_stub" /\ result.applied /\ call.rewrite_rule = RiEdge) =>
        SameUpToIds(call.diagram, result.diagram)


\* ------------------------------------------------------------------------
\* Labels and constraint evaluation (spec section 4.4)
\* ------------------------------------------------------------------------

\* assign_inu_labels was called with at least one constraint
LabelledUnderConstraints == call.op = "assign_inu_labels" /\ call.constraints # <<>>

\* what evaluate_constraints reports as errors on the inputs of the call
ErrorsOnSameInputs ==
    evaluate_constraints(call.constraints, call.state, call.diagram, call.csi).errors

\* C29: for a non-empty constraint list, assign_inu_labels labels the
\* elements of the diagram N exactly when evaluate_constraints reports at
\* least one error on the same inputs, also when a constraint record
\* declares no type.
LabelsForbidIffEvaluationFails ==
    LabelledUnderConstraints =>
        ((\A id \in DOMAIN result.labels : result.labels[id] = "N")
            <=> ErrorsOnSameInputs # <<>>)

\* the part of C29 that holds: the two agree when every record declares
\* its type
TypedConstraintsClassifiedAlike ==
    (LabelledUnderConstraints
       /\ \A k \in DOMAIN call.constraints : call.constraints[k].type # "") =>
        ((\A id \in DOMAIN result.labels : result.labels[id] = "N")
            <=> ErrorsOnSameInputs # <<>>)


\* ------------------------------------------------------------------------
\* Identifiers given to the tokenizer and the parser
\* ------------------------------------------------------------------------

MaxName == 2

\* the characters names are written from: the first letters of the
\* operator tags, another letter, the underscore and a digit
NameStart == {"P", "O", "C", "T", "S", "a", "_"}
NamePart == NameStart \cup {"1"}

\* identifiers: a letter or underscore, then letters, digits or
\* underscores, with or without the $ of a pattern variable; a name that
\* is an operator tag by itself is left out
Plain ==
    {<<c>> \o rest : c \in NameStart,
                     rest \in UNION {[1..n -> NamePart] : n \in 0..(MaxName - 1)}}
        \ {<<"P">>, <<"O">>, <<"C">>, <<"T">>}
Names == Plain \cup {<<"$">> \o name : name \in Plain}

\* a name by itself, and OP(name) for the operators that take one argument
NamedTrees ==
    {Atom(name) : name \in Names}
        \cup {OpExpr(op, <<Atom(name)>>) : op \in OPERATORS \ {"C"}, name \in Names}

InitNames ==
    /\ call \in {Argv(Written(tree), tree) : tree \in NamedTrees}
    /\ pkg = Around(Unbuilt)
    /\ result = NoResult
    /\ drv = Idle(0)
    /\ heap = NoHeap

\* tokens = tokenize(text)
Tokenize ==
    LET Returned(r) ==
            result' = [op |-> "tokenize", ok |-> r.ok, tokens |-> r.tokens, err |-> r.err]
    IN  /\ call.op = "argv"
        /\ call' = [op |-> "tokenize", text |-> call.expression, tree |-> call.tree]
        /\ Returned(tokenize(call.expression))
        /\ UNCHANGED <<pkg, drv, heap>>

NextNames == Tokenize \/ ParseExpression

SpecNames == InitNames /\ [][NextNames]_vars

\* ------------------------------------------------------------------------
\* Identifiers (spec section 4.1)
\* ------------------------------------------------------------------------

\* the kinds and names of a token list
Kinds(tokens) == [k \in DOMAIN tokens |-> <<tokens[k].kind, tokens[k].name>>]

\* C30: tokenize emits an identifier as one identifier token whatever its
\* first letter, and OP(name) parses to the operator OP with the single
\* atom name, also for names that begin with P, O, C, T or S.
IdentifierIsOneToken ==
    /\ (call.op = "tokenize" /\ call.tree.kind = "Atom") =>
           /\ result.ok
           /\ Kinds(result.tokens) = <<<<"ident", call.tree.name>>>>
    /\ (call.op = "parse_expression" /\ call.tree.kind = "OpExpr") =>
           /\ result.ok
           /\ result.expr = call.tree

\* the first letter of a name, after the $ of a variable
FirstLetter(name) == IF name[1] = "$" THEN name[2] ELSE name[1]
NameOf(tree) == IF tree.kind = "Atom" THEN tree.name ELSE tree.args[1].name

\* the part of C30 that holds: names that begin with S, with another
\* letter that is no operator tag, or with an underscore, and every
\* name written with the $ of a variable
OtherNamesAreOneToken ==
    (call.op \in {"tokenize", "parse_expression"}
       /\ \/ FirstLetter(NameOf(call.tree)) \notin {"P", "O", "C", "T"}
          \/ NameOf(call.tree)[1] = "$") =>
        IdentifierIsOneToken

====
